---- MODULE Spec2Model ----
(***************************************************************************)
(* Session scoring state machine of the archery club application:          *)
(* the archer's score-entry page (pages/score_entry.py), the archer's      *)
(* score-history editor (pages/score_history.py), the recorder's approval  *)
(* page (pages/recorder_approval.py) and the write functions of            *)
(* data_rounds.py, all acting on one relational store.                     *)
(*                                                                         *)
(* One action is one Streamlit script run (a widget interaction and the    *)
(* rerun it triggers) or one on_click callback followed by its rerun.      *)
(* The arguments of an on_click callback are bound when the button is      *)
(* rendered, so a callback acts on the values of the previous render.      *)
(***************************************************************************)
EXTENDS Integers, Sequences, FiniteSets, TLC

\* ------------------------------------------------------------------------
\* Bounds of the model
\* ------------------------------------------------------------------------
NumSessions == 3    \* session ids in use
InitSessions == 2   \* session rows in the store of the whole system
MaxDay == 2         \* days the calendar runs through
MaxAudit == 1       \* audited status changes in a run
MaxRaise == 1       \* UPDATEs that raise in one group status change
MaxLen == 3         \* characters of the longest token converted to a score
NumLadderSessions == 4  \* session rows the ladder query reads
MaxTotal == 3       \* greatest total of a session read by the ladder
MaxSessionRows == 2 \* session rows inserted by the tabs
MaxEndRows == 1     \* end rows inserted by the tabs
NumMembers == 3     \* rows of club_member

\* ------------------------------------------------------------------------
\* Reference data
\* ------------------------------------------------------------------------
Sessions == 1..NumSessions

StatusOptions == <<"Preliminary", "Final", "Confirmed">>

Status == {StatusOptions[i] : i \in 1..Len(StatusOptions)}

ARROW_CHOICES == <<"X", "10", "9", "8", "7", "6", "5", "4", "3", "2", "1", "M">>

\* the member logged in on the archer pages, and the logged-in recorder
ArcherId == 1

RecorderId == 2

\* session.member_id: session 1 belongs to the logged-in archer, the others
\* to another member
session_member == [s \in Sessions |-> IF s = 1 THEN ArcherId ELSE ArcherId + 1]

\* competition.end_date of the one competition every session is entered in
comp_end_date == 1

\* competition_entry.final_total before it is first computed
NULL == -1

AllM == [i \in 1..6 |-> "M"]

\* arrow values a user enters for an end
ArrowInputs == {AllM, <<"X", "9", "9", "8", "M", "7">>}

\* no row in `end` for the key
NoEnd == <<>>

VARIABLES
    ranges,        \* ends_per_range of the ranges of the round, by distance DESC;
                   \* the range at range_idx i (0-based) has id i + 1
    session_ids,   \* ids of the rows of session
    status,        \* session.status
    arrows,        \* arrow rows per session and (round_range_id, end_no)
    final_total,   \* competition_entry.final_total per session
    audit,         \* session_audit rows, in insertion order
    audit_table,   \* the session_audit table exists
    today,         \* datetime.date.today()
    entry,         \* archer score-entry page as last rendered
    rec_view,      \* view_mode of the recorder's score editor, "" when it is closed
    bulk,          \* last group status change: arguments and results
    tables,        \* end and arrow rows of one (session, round_range, end_no), row by row
    writers,       \* the runs that are saving that end, statement by statement
    conv,          \* the token last converted to a score, with each conversion's result
    auth,          \* st.session_state["auth"] as an AuthState
    sections,      \* navigation sections of the sidebar as last built
    runs,          \* recorder runs changing a status, statement by statement
    ladder,        \* the championship ladder page: what it reads and the rows it shows
    archery_db,    \* session, end, arrow and competition_entry tables, row by row
    tabs           \* the archer's browser tabs on the score-entry page

vars == <<ranges, session_ids, status, arrows, final_total, audit, audit_table, today,
          entry, rec_view, bulk, tables, writers, conv, auth, sections, runs, ladder,
          archery_db, tabs>>

\* the sidebar and the statement-level runs, left alone by the page handlers
\* the pages added to the model after the score pages
more_vars == <<ladder, archery_db, tabs>>

rest_vars == <<auth, sections, runs, more_vars>>

RangeIds == 1..Len(ranges)

\* the (round_range_id, end_no) an end of the round can have
EndKeys == UNION {{<<rid, eno>> : eno \in 1..ranges[rid]} : rid \in RangeIds}

\* ------------------------------------------------------------------------
\* Scores and totals
\* ------------------------------------------------------------------------
\* CASE ... CAST(a.arrow_value AS UNSIGNED) of the total queries
SqlArrowScore(v) ==
    IF v = "X" THEN 10
    ELSE IF v = "M" THEN 0
    ELSE IF \E n \in 0..10 : ToString(n) = v
         THEN CHOOSE n \in 0..10 : ToString(n) = v
         ELSE 0

RECURSIVE SumScores(_)
SumScores(vals) ==
    IF vals = <<>> THEN 0
    ELSE SqlArrowScore(Head(vals)) + SumScores(Tail(vals))

RECURSIVE SumEnds(_, _)
SumEnds(ends, keys) ==
    IF keys = {} THEN 0
    ELSE LET k == CHOOSE x \in keys : TRUE
         IN SumScores(ends[k]) + SumEnds(ends, keys \ {k})

compute_session_total(arr, session_id) == SumEnds(arr[session_id], EndKeys)

\* ------------------------------------------------------------------------
\* The Python conversions of an arrow value to a score; a token is the
\* sequence of its characters
\* ------------------------------------------------------------------------
DecimalDigits == <<"0", "1", "2", "3", "4", "5", "6", "7", "8", "9">>

isdigit(c) == \E d \in 1..Len(DecimalDigits) : DecimalDigits[d] = c

digit_value(c) == (CHOOSE d \in 1..Len(DecimalDigits) : DecimalDigits[d] = c) - 1

\* str.strip()
RECURSIVE lstrip(_)
lstrip(token) ==
    IF token # <<>> /\ Head(token) = " " THEN lstrip(Tail(token)) ELSE token

RECURSIVE rstrip(_)
rstrip(token) ==
    IF token # <<>> /\ token[Len(token)] = " "
    THEN rstrip(SubSeq(token, 1, Len(token) - 1))
    ELSE token

strip(token) == rstrip(lstrip(token))

\* str.upper()
upper(token) ==
    [i \in 1..Len(token) |->
        IF token[i] = "x" THEN "X"
        ELSE IF token[i] = "m" THEN "M"
        ELSE IF token[i] = "a" THEN "A"
        ELSE token[i]]

\* int(token): an optional sign and one or more digits, ValueError otherwise
unsigned(token) ==
    IF token # <<>> /\ Head(token) \in {"-", "+"} THEN Tail(token) ELSE token

int_raises(token) ==
    \/ unsigned(token) = <<>>
    \/ \E i \in 1..Len(unsigned(token)) : ~isdigit(unsigned(token)[i])

RECURSIVE digits_value(_)
digits_value(token) ==
    IF token = <<>> THEN 0
    ELSE 10 * digits_value(SubSeq(token, 1, Len(token) - 1)) + digit_value(token[Len(token)])

int(token) ==
    IF Head(token) = "-" THEN 0 - digits_value(unsigned(token))
    ELSE digits_value(unsigned(token))

\* score_entry._score_from_value with "X" scored 0
score_from_value_x_zero(value) ==
    LET token == upper(strip(IF value = <<>> THEN <<"M">> ELSE value))
    IN IF token = <<"X">> THEN 0
       ELSE IF token = <<"M">> THEN 0
       ELSE IF int_raises(token) THEN 0
       ELSE int(token)

\* score_entry._score_from_value
score_from_value(value) ==
    LET token == upper(strip(IF value = <<>> THEN <<"M">> ELSE value))
    IN IF token = <<"X">> THEN 10
       ELSE IF token = <<"M">> THEN 0
       ELSE IF int_raises(token) THEN 0
       ELSE int(token)

\* recorder_approval._score_from_arrow
score_from_arrow(a) ==
    IF a = <<>> THEN 0
    ELSE LET a_upper == strip(upper(a))
         IN IF a_upper = <<"X">> THEN 10
            ELSE IF a_upper = <<"M">> THEN 0
            ELSE IF int_raises(a_upper) THEN 0
            ELSE int(a_upper)

\* score_history._score_from_arrow
score_history_score_from_arrow(a) ==
    IF a = <<>> THEN 0
    ELSE LET a_upper == strip(upper(a))
         IN IF a_upper = <<"X">> THEN 10
            ELSE IF a_upper = <<"M">> THEN 0
            ELSE IF int_raises(a_upper) THEN 0
            ELSE int(a_upper)

\* viz_utils.arrow_value_to_score
arrow_value_to_score(arrow_value) ==
    IF arrow_value = <<>> THEN 0
    ELSE LET val == upper(strip(arrow_value))
         IN IF val = <<"X">> THEN 10
            ELSE IF val = <<"M">> THEN 0
            ELSE IF int_raises(val) THEN 0
            ELSE int(val)

\* the characters of a stored arrow_value (one of ARROW_CHOICES)
chars(arrow_value) == IF arrow_value = "10" THEN <<"1", "0">> ELSE <<arrow_value>>

\* the tokens converted: every string of at most MaxLen of these characters
TokenChars == {"X", "x", "M", "m", "0", "1", "3", "-", " ", "a"}

Tokens == UNION {[1..n -> TokenChars] : n \in 0..MaxLen}

\* a token before it is converted
unconverted(token) ==
    [token |-> token, converted |-> FALSE,
     score_entry |-> 0, recorder_approval |-> 0, score_history |-> 0, viz_utils |-> 0]

convert(token) ==
    [token |-> token, converted |-> TRUE,
     score_entry |-> score_from_value(token),
     recorder_approval |-> score_from_arrow(token),
     score_history |-> score_history_score_from_arrow(token),
     viz_utils |-> arrow_value_to_score(token)]

\* ------------------------------------------------------------------------
\* Store operations
\* ------------------------------------------------------------------------
\* a save that inserts a row only for the arrows that were entered
upsert_end_entered_only(arr, session_id, range_id, end_no, values) ==
    [arr EXCEPT ![session_id][<<range_id, end_no>>] =
        SelectSeq(values, LAMBDA v : v # "M")]

\* an upsert that writes nothing
upsert_end_dropped(arr, session_id, range_id, end_no, values) == arr

\* delete-then-reinsert of the six arrows of an end, creating the end row
upsert_end(arr, session_id, range_id, end_no, values) ==
    [arr EXCEPT ![session_id][<<range_id, end_no>>] = values]

fetch_arrow_values(arr, session_id, range_id, end_no) ==
    IF arr[session_id][<<range_id, end_no>>] = NoEnd
    THEN AllM
    ELSE arr[session_id][<<range_id, end_no>>]

\* an UPDATE that is undone when the audit INSERT fails
update_session_status_audited_only(db, session_id, old_status, new_status) ==
    IF audit_table
    THEN [status |-> [db.status EXCEPT ![session_id] = new_status],
          audit  |-> Append(db.audit, [session_id |-> session_id,
                                       old_status |-> old_status,
                                       new_status |-> new_status,
                                       changed_by |-> RecorderId])]
    ELSE db

\* UPDATE of the status followed by the best-effort audit INSERT
update_session_status(db, session_id, old_status, new_status) ==
    [status |-> [db.status EXCEPT ![session_id] = new_status],
     audit  |-> IF audit_table
                THEN Append(db.audit, [session_id |-> session_id,
                                       old_status |-> old_status,
                                       new_status |-> new_status,
                                       changed_by |-> RecorderId])
                ELSE db.audit]

\* a page that never locks
protected_comp_never == FALSE

\* today > comp_end of the recorder page
protected_comp == today > comp_end_date

\* title suffix of the recorder's score editor
view_mode(protected) == IF protected THEN " (View Only)" ELSE ""

\* ------------------------------------------------------------------------
\* Initial state: every session is a new draft entered in the competition
\* ------------------------------------------------------------------------
NoEntry ==
    [session_id |-> 0, range_idx |-> 0, end_no |-> 1,
     editable |-> FALSE, arrow_values |-> AllM]

NoBulk ==
    [sessions |-> <<>>, new_status |-> "Preliminary", raised |-> {},
     success_count |-> 0, skipped_count |-> 0, error_count |-> 0]

\* ------------------------------------------------------------------------
\* ui_sidebar: the auth state and the navigation model
\* ------------------------------------------------------------------------
\* None where a string is expected; NULL stands for a missing id
None == "None"

PUBLIC_PAGES == <<"competition_results", "championship_ladder">>

ARCHER_PAGES == <<"score_entry", "score_history", "pbs_records">>

RECORDER_PAGES == <<"recorder_approval", "recorder_management">>

\* AuthState()
AuthState ==
    [logged_in |-> FALSE, id |-> NULL, name |-> None, is_recorder |-> FALSE, av |-> None]

\* club_member rows read by load_member_profile: member 2 is the recorder,
\* member 3 has no AV number yet
Members == 1..NumMembers

load_member_profile(member_id) ==
    IF member_id \in Members
    THEN [id |-> member_id, full_name |-> "member", is_recorder |-> (member_id = RecorderId),
          av_number |-> IF member_id = NumMembers THEN None ELSE "AV"]
    ELSE [id |-> NULL]

\* the values an AuthState can be built with
AuthStates ==
    [logged_in : BOOLEAN, id : Members \cup {NULL}, name : {None, "member"},
     is_recorder : BOOLEAN, av : {None, "AV"}]

\* _visible_sections with the Recorder section not tied to logged_in
visible_sections_any_recorder(a) ==
    LET base == [sec \in {"Home", "Public"} |->
                    IF sec = "Home" THEN <<"home">> ELSE PUBLIC_PAGES]
        with_archer == IF a.logged_in /\ ~a.is_recorder
                       THEN [sec \in DOMAIN base \cup {"Archer"} |->
                                IF sec = "Archer" THEN ARCHER_PAGES ELSE base[sec]]
                       ELSE base
    IN IF a.is_recorder
       THEN [sec \in DOMAIN with_archer \cup {"Recorder"} |->
                IF sec = "Recorder" THEN RECORDER_PAGES ELSE with_archer[sec]]
       ELSE with_archer

\* _visible_sections: section name -> page ids
visible_sections(a) ==
    LET base == [sec \in {"Home", "Public"} |->
                    IF sec = "Home" THEN <<"home">> ELSE PUBLIC_PAGES]
        with_archer == IF a.logged_in /\ ~a.is_recorder
                       THEN [sec \in DOMAIN base \cup {"Archer"} |->
                                IF sec = "Archer" THEN ARCHER_PAGES ELSE base[sec]]
                       ELSE base
    IN IF a.logged_in /\ a.is_recorder
       THEN [sec \in DOMAIN with_archer \cup {"Recorder"} |->
                IF sec = "Recorder" THEN RECORDER_PAGES ELSE with_archer[sec]]
       ELSE with_archer

\* no sidebar built yet
NoSections == [sec \in {} |-> <<>>]

InitSidebar ==
    /\ auth = AuthState
    /\ sections = NoSections

\* ------------------------------------------------------------------------
\* The championship ladder (championship_ladder.show_championship_ladder)
\* ------------------------------------------------------------------------
\* the selected championship with the columns of its category
championship ==
    [id |-> 1, start_date |-> 1, end_date |-> 2, gender_id |-> 1, division_id |-> 1,
     min_birth_year |-> 2000, max_birth_year |-> NULL]

\* club_member: the members 1..NumMembers are in the category, one more is not
LadderMembers == 1..(NumMembers + 1)

club_member(member_id) ==
    [gender_id |-> 1, division_id |-> IF member_id \in Members THEN 1 ELSE 2,
     birth_year |-> 2005]

\* championship_round rows of the championship, ORDER BY round_name
RuleSets ==
    {<<[round_id |-> 1, score_count_method |-> 1]>>,
     <<[round_id |-> 1, score_count_method |-> 2]>>,
     <<[round_id |-> 1, score_count_method |-> 1], [round_id |-> 2, score_count_method |-> 1]>>,
     <<[round_id |-> 1, score_count_method |-> 2], [round_id |-> 2, score_count_method |-> 1]>>}

\* a session row with the total of its arrows: the sessions that match the
\* championship, and one session failing each condition of the query
SessionRows ==
    {[member_id |-> m, round_id |-> r, status |-> "Confirmed", shoot_date |-> 1,
      total_score |-> t] : m \in Members, r \in 1..2, t \in {1, MaxTotal}}
    \cup {[member_id |-> 1, round_id |-> 1, status |-> "Final", shoot_date |-> 1,
           total_score |-> MaxTotal],
          [member_id |-> 2, round_id |-> 3, status |-> "Confirmed", shoot_date |-> 1,
           total_score |-> MaxTotal],
          [member_id |-> 3, round_id |-> 1, status |-> "Confirmed", shoot_date |-> 3,
           total_score |-> MaxTotal],
          [member_id |-> NumMembers + 1, round_id |-> 1, status |-> "Confirmed",
           shoot_date |-> 1, total_score |-> MaxTotal]}

\* the ids of the sessions the score query returns
score_rows(sessions, rules) ==
    {s \in DOMAIN sessions :
        /\ sessions[s].status = "Confirmed"
        /\ sessions[s].shoot_date >= championship.start_date
        /\ sessions[s].shoot_date <= championship.end_date
        /\ \E i \in DOMAIN rules : rules[i].round_id = sessions[s].round_id
        /\ club_member(sessions[s].member_id).gender_id = championship.gender_id
        /\ club_member(sessions[s].member_id).division_id = championship.division_id
        /\ \/ championship.min_birth_year = NULL
           \/ club_member(sessions[s].member_id).birth_year >= championship.min_birth_year
        /\ \/ championship.max_birth_year = NULL
           \/ club_member(sessions[s].member_id).birth_year <= championship.max_birth_year}

\* group[group["round_id"] == rule["round_id"]]
rule_scores(sessions, rule, group) ==
    {s \in group : sessions[s].round_id = rule.round_id}

\* sum of sort_values("total_score", ascending=False).head(take_n)
RECURSIVE head_sum(_, _, _)
head_sum(sessions, scores, take_n) ==
    IF take_n <= 0 \/ scores = {} THEN 0
    ELSE LET first == CHOOSE s \in scores :
                          \A t \in scores : sessions[t].total_score <= sessions[s].total_score
         IN sessions[first].total_score + head_sum(sessions, scores \ {first}, take_n - 1)

\* row["Total Score"] after the first i rules
RECURSIVE total_score(_, _, _, _)
total_score(sessions, rules, group, i) ==
    IF i = 0 THEN 0
    ELSE total_score(sessions, rules, group, i - 1)
         + head_sum(sessions, rule_scores(sessions, rules[i], group),
                    rules[i].score_count_method)

\* the row of one archer
ladder_row(sessions, rules, member_id) ==
    LET group == {s \in score_rows(sessions, rules) : sessions[s].member_id = member_id}
    IN [Archer |-> member_id,
        Total_Score |-> total_score(sessions, rules, group, Len(rules)),
        Complete |-> \A i \in DOMAIN rules : rule_scores(sessions, rules[i], group) # {}]

\* one row per (member_id, full_name) of the score rows
ladder_rows(sessions, rules) ==
    {ladder_row(sessions, rules, sessions[s].member_id) : s \in score_rows(sessions, rules)}

\* sort_values by Total Score alone
sort_before_by_total(a, b) ==
    \/ a.Total_Score > b.Total_Score
    \/ a.Total_Score = b.Total_Score /\ a.Archer < b.Archer

\* sort_values(by=["Complete", "Total Score"], ascending=[False, False]): row a
\* comes before row b; rows that tie keep the order of the groupby
sort_before(a, b) ==
    \/ a.Complete /\ ~b.Complete
    \/ a.Complete = b.Complete /\ a.Total_Score > b.Total_Score
    \/ a.Complete = b.Complete /\ a.Total_Score = b.Total_Score /\ a.Archer < b.Archer

sort_values(rows) ==
    [i \in 1..Cardinality(rows) |->
        CHOOSE r \in rows : Cardinality({q \in rows : sort_before(q, r)}) = i - 1]

\* the Rank column: complete_rank for a complete row, NULL for the dash
ranks(ladder_df) ==
    [i \in DOMAIN ladder_df |->
        IF ladder_df[i].Complete
        THEN Cardinality({j \in 1..i : ladder_df[j].Complete})
        ELSE NULL]

\* the ladder as displayed, <<>> when the page stops at "No confirmed sessions"
display_df(sessions, rules) ==
    LET ladder_df == sort_values(ladder_rows(sessions, rules))
    IN [i \in DOMAIN ladder_df |->
           [Rank |-> ranks(ladder_df)[i], Archer |-> ladder_df[i].Archer,
            Total_Score |-> ladder_df[i].Total_Score, Complete |-> ladder_df[i].Complete]]

\* the page before it is shown
NoLadder(sessions, rules) ==
    [sessions |-> sessions, rules |-> rules, shown |-> FALSE, rows |-> <<>>]

InitLadderIdle == ladder = NoLadder(<<>>, <<>>)

\* ------------------------------------------------------------------------
\* The score-entry page over the rows of the tables, one SQL statement at a
\* time, in two browser tabs of the same archer
\* ------------------------------------------------------------------------
Tabs == {1, 2}

\* _load_round_ranges: ends_per_range of the ranges of a round by distance
\* DESC; round 1 has one range of two ends, round 2 has no round_range row
load_round_ranges(round_id) == IF round_id = 1 THEN <<2>> ELSE <<>>

\* _list_rounds lists every round, with or without ranges
Rounds == {1, 2}

\* comp_labels: the ids of the active competitions
Competitions == {1, 2}

\* what the schema may declare for end.session_id, arrow.end_id and
\* competition_entry.session_id
ForeignKeys == {"none", "restrict", "cascade"}

\* the value of the six arrow selectboxes when an end is saved
SavedValue == "9"

\* foreign_keys is what the schema declares for end.session_id, arrow.end_id
\* and competition_entry.session_id; the natural keys of end and arrow are
\* not declared UNIQUE here, the runs that save the same end are above

NoRows ==
    [session |-> {}, end |-> {}, arrow |-> {}, competition_entry |-> {},
     next_session_id |-> 1, next_end_id |-> 1, foreign_keys |-> "none"]

\* st.session_state["score_entry_editor"] when the key is absent
NoEditor == [session_id |-> 0, range_idx |-> NULL, end_no |-> NULL]

\* a tab on the launcher: pc is the page shown or the statement the run is
\* at; editable and ranges are what the last render of the editor bound to
\* the buttons; inserted is the id of the row the INSERT of _create_session
\* made
NoTab ==
    [pc |-> "launcher", session_id |-> 0, editor |-> NoEditor, editable |-> FALSE,
     ranges |-> <<>>, direction |-> "", end_id |-> 0, i |-> 0, inserted |-> 0, new_session_id |-> 0,
     comp_id |-> 0]

InitTabs ==
    /\ archery_db = NoRows
    /\ tabs = [t \in Tabs |-> NoTab]

InitMore == InitLadderIdle /\ InitTabs

\* the locals of a run are gone when the run ends
run_ended(tab) ==
    [tab EXCEPT !.direction = "", !.end_id = 0, !.i = 0, !.inserted = 0,
                !.new_session_id = 0, !.comp_id = 0]

\* an exception ends the run and leaves st.session_state as it is
raised(tab) == [run_ended(tab) EXCEPT !.pc = "exception"]

\* _fetch_session: the rows with s.id = :sid AND s.member_id = :mid
fetch_session(d, session_id, member_id) ==
    {s \in d.session : s.id = session_id /\ s.member_id = member_id}

\* _get_editor_state
get_editor_state(state, session_id) ==
    IF state.session_id # session_id
    THEN [session_id |-> session_id, range_idx |-> 0, end_no |-> 1]
    ELSE state

\* _reset_score_entry_state
reset_score_entry_state(tab) ==
    [tab EXCEPT !.session_id = 0, !.editor = NoEditor, !.editable = FALSE, !.ranges = <<>>]

\* show_score_entry without the check of the ranges
show_score_entry_any_round(d, tab) ==
    IF tab.session_id = 0 THEN [run_ended(tab) EXCEPT !.pc = "launcher"]
    ELSE IF fetch_session(d, tab.session_id, ArcherId) = {}
    THEN [reset_score_entry_state(run_ended(tab)) EXCEPT !.pc = "error"]
    ELSE LET session == CHOOSE s \in fetch_session(d, tab.session_id, ArcherId) : TRUE
         IN [run_ended(tab) EXCEPT !.pc = "editor",
                        !.editable = session.status = "Preliminary",
                        !.ranges = load_round_ranges(session.round_id),
                        !.editor = get_editor_state(tab.editor, session.id)]

\* show_score_entry, from the read of score_entry_session_id on: the tab as
\* the run leaves it, on the launcher, the "Session not found" error, the
\* "missing distance definitions" warning or the editor
show_score_entry(d, tab) ==
    IF tab.session_id = 0 THEN [run_ended(tab) EXCEPT !.pc = "launcher"]
    ELSE IF fetch_session(d, tab.session_id, ArcherId) = {}
    THEN [reset_score_entry_state(run_ended(tab)) EXCEPT !.pc = "error"]
    ELSE LET session == CHOOSE s \in fetch_session(d, tab.session_id, ArcherId) : TRUE
         IN IF load_round_ranges(session.round_id) = <<>>
            THEN [run_ended(tab) EXCEPT !.pc = "warning"]
            ELSE [run_ended(tab) EXCEPT !.pc = "editor",
                             !.editable = session.status = "Preliminary",
                             !.ranges = load_round_ranges(session.round_id),
                             !.editor = get_editor_state(tab.editor, session.id)]

\* an INSERT of a row that references a parent row raises when the schema
\* declares the foreign key and the parent is missing
fk_raises(d, parent_exists) == d.foreign_keys # "none" /\ ~parent_exists

\* the runs of the recorder page that change the status of a session
Recorders == {1, 2}

IdleRun ==
    [pc |-> "idle", session_id |-> 0, old_status |-> "", new_status |-> "", was |-> ""]

InitRuns == runs = [r \in Recorders |-> IdleRun]

InitRest == InitRuns /\ InitMore

\* the two runs that save the same end, and the values each one saves
Writers == {1, 2}

writer_values(w) ==
    IF w = 1 THEN <<"X", "9", "9", "8", "M", "7">>
    ELSE <<"7", "7", "7", "7", "7", "7">>

IdleWriter == [pc |-> "idle", end_id |-> 0, len_arrows |-> 0, i |-> 1]

\* the rows of the end and arrow tables for one (session, round_range,
\* end_no): end holds the ids of its end rows, arrow its arrow rows (by: the
\* run that inserted the row, 0 for a row stored before); the two flags say
\* whether the schema declares the natural keys UNIQUE
NoTables ==
    [end |-> {}, arrow |-> {}, end_key_unique |-> TRUE, arrow_key_unique |-> TRUE]

InitStore ==
    /\ writers = [w \in Writers |-> IdleWriter]
    /\ arrows = [s \in Sessions |-> [k \in EndKeys |-> NoEnd]]
    /\ final_total = [s \in Sessions |-> NULL]
    /\ audit = <<>>
    /\ today = 1
    /\ entry = NoEntry
    /\ rec_view = ""
    /\ bulk = NoBulk

\* the whole system: a round of one range of two ends, two sessions
Init ==
    /\ ranges = <<2>>
    /\ session_ids = 1..InitSessions
    /\ audit_table = TRUE
    /\ status = [s \in Sessions |-> "Preliminary"]
    /\ tables = NoTables
    /\ conv = unconverted(<<>>)
    /\ InitSidebar
    /\ InitRest
    /\ InitStore

\* ------------------------------------------------------------------------
\* Archer: score-entry page
\* ------------------------------------------------------------------------
\* one run of _render_score_editor: what the page shows and what its
\* buttons capture; widget_values are the values the arrow widgets keep
\* when the end shown is the one of the previous run
render_score_editor(session_id, range_idx, end_no, st, arr, keep, widget_values) ==
    [session_id   |-> session_id,
     range_idx    |-> range_idx,
     end_no       |-> end_no,
     editable     |-> (st[session_id] = "Preliminary"),
     arrow_values |-> IF keep THEN widget_values
                      ELSE fetch_arrow_values(arr, session_id, range_idx + 1, end_no)]

\* Drafts tab of the launcher: a Preliminary session of the member is opened
\* at range_idx 0, end_no 1
ResumeDraft(s) ==
    /\ entry.session_id = 0
    /\ s \in session_ids
    /\ session_member[s] = ArcherId
    /\ status[s] = "Preliminary"
    /\ entry' = render_score_editor(s, 0, 1, status, arrows, FALSE, AllM)
    /\ UNCHANGED <<ranges, session_ids, status, arrows, final_total, audit, audit_table, today, rec_view, bulk, tables, writers, conv, rest_vars>>

BackToHistory ==
    /\ entry.session_id # 0
    /\ entry' = NoEntry
    /\ UNCHANGED <<ranges, session_ids, status, arrows, final_total, audit, audit_table, today, rec_view, bulk, tables, writers, conv, rest_vars>>

\* a page that offers Delete Draft whatever the status
delete_offered_always(session_status) == TRUE

\* session["status"] != "Preliminary" of show_score_entry: the run renders
\* Delete Draft only for a Preliminary session
delete_offered(session_status) == session_status = "Preliminary"

\* DELETE of the arrows, ends, competition entry and session row
delete_session(db, session_id) ==
    [session_ids |-> db.session_ids \ {session_id},
     arrows      |-> [db.arrows EXCEPT ![session_id] = [k \in EndKeys |-> NoEnd]],
     final_total |-> [db.final_total EXCEPT ![session_id] = NULL]]

\* click on Delete Draft of the page as last rendered: the rerun fetches the
\* session again and the click is only seen when the button is rendered
DeleteDraft ==
    /\ entry.session_id # 0
    /\ entry.editable
    /\ LET sid == entry.session_id
           db == [session_ids |-> session_ids, arrows |-> arrows, final_total |-> final_total]
           res == IF delete_offered(status[sid]) THEN delete_session(db, sid) ELSE db
       IN /\ session_ids' = res.session_ids
          /\ arrows' = res.arrows
          /\ final_total' = res.final_total
          /\ entry' = IF delete_offered(status[sid])
                      THEN NoEntry
                      ELSE [entry EXCEPT !.editable = FALSE]
    /\ UNCHANGED <<ranges, status, audit, audit_table, today, rec_view, bulk, tables, writers, conv, rest_vars>>

\* the archer changes arrow selectboxes of the end shown; the rerun fetches
\* the session again and auto-saves when editable and the values differ
\* from the stored ones
ArcherChangeArrows(values) ==
    /\ entry.session_id # 0
    /\ entry.editable
    /\ values # entry.arrow_values
    /\ LET sid == entry.session_id
           rid == entry.range_idx + 1
           editable == status[sid] = "Preliminary"
           base_values == fetch_arrow_values(arrows, sid, rid, entry.end_no)
       IN /\ arrows' = IF editable /\ values # base_values
                       THEN upsert_end(arrows, sid, rid, entry.end_no, values)
                       ELSE arrows
          /\ entry' = [entry EXCEPT !.editable = editable, !.arrow_values = values]
    /\ UNCHANGED <<ranges, session_ids, status, final_total, audit, audit_table, today, rec_view, bulk, tables, writers, conv, rest_vars>>

SelectEnd(e) ==
    /\ entry.session_id # 0
    /\ e # entry.end_no
    /\ entry' = render_score_editor(entry.session_id, entry.range_idx, e,
                                    status, arrows, FALSE, AllM)
    /\ UNCHANGED <<ranges, session_ids, status, arrows, final_total, audit, audit_table, today, rec_view, bulk, tables, writers, conv, rest_vars>>

\* the Range selectbox is changed: range_idx != previous_range_idx sets
\* end_no to 1, and the run renders that end
SelectRange(r) ==
    /\ entry.session_id # 0
    /\ r \in 0..(Len(ranges) - 1)
    /\ r # entry.range_idx
    /\ entry' = render_score_editor(entry.session_id, r, 1, status, arrows, FALSE, AllM)
    /\ UNCHANGED <<ranges, session_ids, status, arrows, final_total, audit, audit_table, today, rec_view, bulk, tables, writers, conv, rest_vars>>

\* the button the page shows next to Previous
is_last_end == entry.end_no >= ranges[entry.range_idx + 1]

is_last_range == entry.range_idx >= Len(ranges) - 1

ButtonShown(direction) ==
    IF direction = "prev" THEN entry.end_no # 1
    ELSE IF direction = "submit" THEN is_last_end /\ is_last_range
    ELSE IF direction = "next_range" THEN is_last_end /\ ~is_last_range
    ELSE ~is_last_end

Min(a, b) == IF a < b THEN a ELSE b

Max(a, b) == IF a > b THEN a ELSE b

\* the button _render_score_editor puts next to Previous at a position
next_button(rngs, range_idx, end_no) ==
    IF end_no >= rngs[range_idx + 1] /\ range_idx >= Len(rngs) - 1 THEN "submit"
    ELSE IF end_no >= rngs[range_idx + 1] THEN "next_range"
    ELSE "next"

\* _nav_callback with Previous not clamped at 1
nav_position_unclamped(rngs, range_idx, end_no, direction) ==
    IF direction = "prev" THEN <<range_idx, end_no - 1>>
    ELSE IF direction = "next" THEN <<range_idx, Min(rngs[range_idx + 1], end_no + 1)>>
    ELSE IF direction = "next_range" THEN <<range_idx + 1, 1>>
    ELSE <<range_idx, end_no>>

\* _nav_callback with Next Range keeping the end number
nav_position_keep_end(rngs, range_idx, end_no, direction) ==
    IF direction = "prev" THEN <<range_idx, Max(1, end_no - 1)>>
    ELSE IF direction = "next" THEN <<range_idx, Min(rngs[range_idx + 1], end_no + 1)>>
    ELSE IF direction = "next_range" THEN <<range_idx + 1, end_no>>
    ELSE <<range_idx, end_no>>

\* _nav_callback, step 2: the (range_idx, end_no) the callback leaves in state
nav_position(rngs, range_idx, end_no, direction) ==
    IF direction = "prev" THEN <<range_idx, Max(1, end_no - 1)>>
    ELSE IF direction = "next" THEN <<range_idx, Min(rngs[range_idx + 1], end_no + 1)>>
    ELSE IF direction = "next_range" THEN <<range_idx + 1, 1>>
    ELSE <<range_idx, end_no>>

\* UPDATE session SET status = 'Final' of the submit branch
submit_status(st, session_id) == [st EXCEPT ![session_id] = "Final"]

\* the arrows written by the callback: the widget values, when the page
\* was rendered editable
nav_save(arr, page) ==
    IF page.editable
    THEN upsert_end(arr, page.session_id, page.range_idx + 1, page.end_no, page.arrow_values)
    ELSE arr

\* on_click callback of Previous / Next / Next Range / Submit for Review,
\* with the arguments bound at the last render, and the rerun after it
NavCallback(direction) ==
    /\ entry.session_id # 0
    /\ direction \in {"prev", "next", "next_range", "submit"}
    /\ ButtonShown(direction)
    /\ LET sid == entry.session_id
           max_ends == ranges[entry.range_idx + 1]
           saved == nav_save(arrows, entry)
           new_position == nav_position(ranges, entry.range_idx, entry.end_no, direction)
           new_range_idx == new_position[1]
           new_end_no == new_position[2]
           new_status == IF direction = "submit"
                         THEN submit_status(status, sid) ELSE status
       IN /\ arrows' = saved
          /\ status' = new_status
          /\ final_total' = IF direction = "submit"
                            THEN [final_total EXCEPT ![sid] = compute_session_total(saved, sid)]
                            ELSE final_total
          /\ entry' = render_score_editor(sid, new_range_idx, new_end_no, new_status, saved,
                                          direction = "submit", entry.arrow_values)
    /\ UNCHANGED <<ranges, session_ids, audit, audit_table, today, rec_view, bulk, tables, writers, conv, rest_vars>>

\* ------------------------------------------------------------------------
\* Archer: score-history editor
\* ------------------------------------------------------------------------
\* protected of score_history._render_score_editor
history_protected(session_status) ==
    (today > comp_end_date) \/ (session_status \in {"Final", "Confirmed"})

\* per-slot UPDATE / INSERT of the six values of _render_arrow_editor
persist_arrows(arr, session_id, range_id, end_no, protected, new_vals) ==
    IF ~protected /\ new_vals # arr[session_id][<<range_id, end_no>>]
    THEN [arr EXCEPT ![session_id][<<range_id, end_no>>] = [i \in 1..6 |-> new_vals[i]]]
    ELSE arr

\* the archer changes arrow selectboxes of a recorded end in My Scores
HistEditArrows(s, rid, eno, new_vals) ==
    /\ s \in session_ids
    /\ session_member[s] = ArcherId
    /\ arrows[s][<<rid, eno>>] # NoEnd
    /\ arrows' = persist_arrows(arrows, s, rid, eno, history_protected(status[s]), new_vals)
    /\ UNCHANGED <<ranges, session_ids, status, final_total, audit, audit_table, today, entry, rec_view, bulk, tables, writers, conv, rest_vars>>

\* ------------------------------------------------------------------------
\* Recorder: approval page
\* ------------------------------------------------------------------------
\* score editor of a recorded end: the values selected are persisted unless
\* the competition has ended, in which case the editor is view-only
RecEditArrows(s, rid, eno, new_vals) ==
    /\ s \in session_ids
    /\ arrows[s][<<rid, eno>>] # NoEnd
    /\ arrows' = persist_arrows(arrows, s, rid, eno, protected_comp, new_vals)
    /\ rec_view' = view_mode(protected_comp)
    /\ bulk' = NoBulk
    /\ UNCHANGED <<ranges, session_ids, status, final_total, audit, audit_table, today, entry, tables, writers, conv, rest_vars>>

\* what Apply of the status editor does with the status selected
apply_status(db, session_id, session_status, new_status) ==
    IF new_status # session_status
    THEN update_session_status(db, session_id, session_status, new_status)
    ELSE update_session_status(db, session_id, session_status, new_status)

\* status editor: Apply with the status selected
RecApplyStatus(s, new_status) ==
    /\ s \in session_ids
    /\ ~protected_comp
    /\ Len(audit) < MaxAudit
    /\ LET db == apply_status([status |-> status, audit |-> audit], s, status[s], new_status)
       IN /\ status' = db.status
          /\ audit' = db.audit
    /\ rec_view' = ""
    /\ bulk' = NoBulk
    /\ UNCHANGED <<ranges, session_ids, arrows, final_total, audit_table, today, entry, tables, writers, conv, rest_vars>>

\* s['status'] == ('Final', 'Confirmed'): a str compared with a tuple
status_is_final_confirmed_tuple(session_status) == FALSE

\* rows of the session list of the competition, as loaded by the run
\* (ORDER BY of the query taken as the order of the ids)
RECURSIVE load_sessions(_, _)
load_sessions(ids, st) ==
    IF ids = {} THEN <<>>
    ELSE LET s == CHOOSE x \in ids : \A y \in ids : x <= y
         IN <<[session_id |-> s, status |-> st[s], av_number |-> session_member[s]]>>
            \o load_sessions(ids \ {s}, st)

sess_list == load_sessions(session_ids, status)

\* av_filter: 0 is the empty text input, another value a text that matches
\* the av_number of the sessions of one archer
AvFilters == {0} \cup {session_member[s] : s \in Sessions}

filtered_sessions(current_status_filter, av_filter) ==
    LET Match(s) == /\ (current_status_filter = {} \/ s.status \in current_status_filter)
                    /\ (av_filter = 0 \/ av_filter = s.av_number)
    IN SelectSeq(sess_list, Match)

editable_sessions(filtered) ==
    IF today > comp_end_date
    THEN <<>>
    ELSE LET Editable(s) == ~status_is_final_confirmed_tuple(s.status)
         IN SelectSeq(filtered, Editable)

\* a loop that writes and counts as updated the sessions already at the
\* target status
RECURSIVE execute_group_approve_change_noskip(_, _, _, _, _)
execute_group_approve_change_noskip(sessions, idx, new_status, fail, acc) ==
    IF idx > Len(sessions) THEN acc
    ELSE LET session == sessions[idx]
         IN IF session.session_id \in fail
            THEN execute_group_approve_change_noskip(sessions, idx + 1, new_status, fail,
                     [acc EXCEPT !.error_count = @ + 1,
                                 !.raised = @ \cup {session.session_id}])
            ELSE execute_group_approve_change_noskip(sessions, idx + 1, new_status, fail,
                     [acc EXCEPT !.success_count = @ + 1,
                                 !.status[session.session_id] = new_status])

\* a loop that stops at the first UPDATE that raises
RECURSIVE execute_group_approve_change_abort(_, _, _, _, _)
execute_group_approve_change_abort(sessions, idx, new_status, fail, acc) ==
    IF idx > Len(sessions) THEN acc
    ELSE LET session == sessions[idx]
         IN IF session.status = new_status
            THEN execute_group_approve_change_abort(sessions, idx + 1, new_status, fail,
                     [acc EXCEPT !.skipped_count = @ + 1])
            ELSE IF session.session_id \in fail
            THEN [acc EXCEPT !.error_count = @ + 1,
                             !.raised = @ \cup {session.session_id}]
            ELSE execute_group_approve_change_abort(sessions, idx + 1, new_status, fail,
                     [acc EXCEPT !.success_count = @ + 1,
                                 !.status[session.session_id] = new_status])

\* the loop of _execute_group_approve_change from index idx on; the UPDATE
\* of the sessions in fail raises
RECURSIVE execute_group_approve_change(_, _, _, _, _)
execute_group_approve_change(sessions, idx, new_status, fail, acc) ==
    IF idx > Len(sessions) THEN acc
    ELSE LET session == sessions[idx]
             old_status == session.status
         IN IF old_status = new_status
            THEN execute_group_approve_change(sessions, idx + 1, new_status, fail,
                     [acc EXCEPT !.skipped_count = @ + 1])
            ELSE IF session.session_id \in fail
            THEN execute_group_approve_change(sessions, idx + 1, new_status, fail,
                     [acc EXCEPT !.error_count = @ + 1,
                                 !.raised = @ \cup {session.session_id}])
            ELSE LET db == update_session_status([status |-> acc.status, audit |-> acc.audit],
                                                 session.session_id, old_status, new_status)
                 IN execute_group_approve_change(sessions, idx + 1, new_status, fail,
                        [acc EXCEPT !.success_count = @ + 1,
                                    !.status = db.status,
                                    !.audit = db.audit])

\* Group Approve/Revert: filters, target status, Apply
RecGroupApprove(current_status_filter, av_filter, new_bulk_status, fail) ==
    LET filtered == filtered_sessions(current_status_filter, av_filter)
        editable == editable_sessions(filtered)
        res == execute_group_approve_change(editable, 1, new_bulk_status, fail,
                   [status |-> status, audit |-> audit, raised |-> {},
                    success_count |-> 0, skipped_count |-> 0, error_count |-> 0])
    IN /\ filtered # <<>>
       /\ editable # <<>>
       /\ Len(audit) < MaxAudit
       /\ status' = res.status
       /\ audit' = res.audit
       /\ bulk' = [sessions |-> editable, new_status |-> new_bulk_status,
                   raised |-> res.raised,
                   success_count |-> res.success_count,
                   skipped_count |-> res.skipped_count,
                   error_count |-> res.error_count]
       /\ rec_view' = ""
       /\ UNCHANGED <<ranges, session_ids, arrows, final_total, audit_table, today, entry, tables, writers, conv, rest_vars>>

\* ------------------------------------------------------------------------
\* data_rounds.save_end
\* ------------------------------------------------------------------------
\* the end row is inserted if it is not there, and the arrows are inserted,
\* numbered from 1, only when the end has no arrow yet
save_end(arr, session_id, round_range_id, end_no, arrow_values) ==
    IF arr[session_id][<<round_range_id, end_no>>] = NoEnd
    THEN [arr EXCEPT ![session_id][<<round_range_id, end_no>>] =
             [i \in 1..Len(arrow_values) |-> arrow_values[i]]]
    ELSE arr

\* a completed end of six arrows is saved
SaveEnd(s, round_range_id, end_no, arrow_values) ==
    /\ s \in session_ids
    /\ arrows' = save_end(arrows, s, round_range_id, end_no, arrow_values)
    /\ UNCHANGED <<ranges, session_ids, status, final_total, audit, audit_table, today, entry, rec_view, bulk, tables, writers, conv, rest_vars>>

\* ------------------------------------------------------------------------
\* data_rounds.finalize_session and the calendar
\* ------------------------------------------------------------------------
FinalizeSession(s) ==
    /\ s \in session_ids
    /\ status' = [status EXCEPT ![s] = "Confirmed"]
    /\ UNCHANGED <<ranges, session_ids, arrows, final_total, audit, audit_table, today, entry, rec_view, bulk, tables, writers, conv, rest_vars>>

NextDay ==
    /\ today < MaxDay
    /\ today' = today + 1
    /\ UNCHANGED <<ranges, session_ids, status, arrows, final_total, audit, audit_table, entry, rec_view, bulk, tables, writers, conv, rest_vars>>

\* ------------------------------------------------------------------------
\* Specification
\* ------------------------------------------------------------------------
ArcherStep ==
    \/ \E s \in Sessions : ResumeDraft(s)
    \/ BackToHistory
    \/ DeleteDraft
    \/ \E values \in ArrowInputs : ArcherChangeArrows(values)
    \/ \E e \in 1..ranges[entry.range_idx + 1] : SelectEnd(e)
    \/ \E direction \in {"prev", "next", "next_range", "submit"} : NavCallback(direction)
    \/ \E s \in Sessions, k \in EndKeys, new_vals \in ArrowInputs :
          HistEditArrows(s, k[1], k[2], new_vals)

RecorderStep ==
    \/ \E s \in Sessions, k \in EndKeys, new_vals \in ArrowInputs :
          RecEditArrows(s, k[1], k[2], new_vals)
    \/ \E s \in Sessions, new_status \in Status : RecApplyStatus(s, new_status)
    \/ \E current_status_filter \in SUBSET Status, av_filter \in AvFilters,
          new_bulk_status \in Status,
          fail \in {f \in SUBSET session_ids : Cardinality(f) <= MaxRaise} :
          RecGroupApprove(current_status_filter, av_filter, new_bulk_status, fail)

Next ==
    \/ ArcherStep
    \/ RecorderStep
    \/ \E s \in Sessions : FinalizeSession(s)
    \/ NextDay

Spec == Init /\ [][Next]_vars

\* the recorder's status changes alone, on three sessions, with and without
\* the audit table
InitGroup ==
    /\ ranges = <<2>>
    /\ session_ids = Sessions
    /\ audit_table \in BOOLEAN
    /\ status \in [Sessions -> Status]
    /\ tables = NoTables
    /\ conv = unconverted(<<>>)
    /\ InitSidebar
    /\ InitRest
    /\ InitStore

NextGroup ==
    \/ \E s \in Sessions, new_status \in Status : RecApplyStatus(s, new_status)
    \/ \E current_status_filter \in SUBSET Status, av_filter \in AvFilters,
          new_bulk_status \in Status,
          fail \in {f \in SUBSET session_ids : Cardinality(f) <= MaxRaise} :
          RecGroupApprove(current_status_filter, av_filter, new_bulk_status, fail)
    \/ \E s \in Sessions : FinalizeSession(s)
    \/ NextDay

SpecGroup == InitGroup /\ [][NextGroup]_vars

\* the writers of arrows: the archer's pages, the recorder's score editor
\* and save_end, with the statuses that open and close them
NextEnds ==
    \/ \E s \in Sessions : ResumeDraft(s)
    \/ \E values \in ArrowInputs : ArcherChangeArrows(values)
    \/ \E e \in 1..ranges[entry.range_idx + 1] : SelectEnd(e)
    \/ \E direction \in {"prev", "next", "next_range", "submit"} : NavCallback(direction)
    \/ \E s \in Sessions, k \in EndKeys, new_vals \in ArrowInputs :
          HistEditArrows(s, k[1], k[2], new_vals)
    \/ \E s \in Sessions, k \in EndKeys, new_vals \in ArrowInputs :
          RecEditArrows(s, k[1], k[2], new_vals)
    \/ \E s \in Sessions, k \in EndKeys, arrow_values \in ArrowInputs :
          SaveEnd(s, k[1], k[2], arrow_values)
    \/ \E s \in Sessions : FinalizeSession(s)
    \/ NextDay

SpecEnds == Init /\ [][NextEnds]_vars

\* ------------------------------------------------------------------------
\* Two runs saving the same end, one SQL statement at a time (autocommit)
\* ------------------------------------------------------------------------
store_vars ==
    <<ranges, session_ids, status, arrows, final_total, audit, audit_table, today,
      entry, rec_view, bulk>>

\* _fetch_end_id: fetch_one of the rows of the key, 0 for None
fetch_end_id(t) == IF t.end = {} THEN {0} ELSE t.end

end_arrows(t, end_id) == {r \in t.arrow : r.end_id = end_id}

\* INSERT INTO arrow raises when a UNIQUE key rejects the row
insert_arrow_raises(t, end_id, arrow_no) ==
    t.arrow_key_unique /\ \E r \in end_arrows(t, end_id) : r.arrow_no = arrow_no

insert_arrow(t, end_id, arrow_no, arrow_value, w) ==
    [t EXCEPT !.arrow = @ \cup {[end_id |-> end_id, arrow_no |-> arrow_no,
                                 arrow_value |-> arrow_value, by |-> w]}]

\* _upsert_end: end_id = _fetch_end_id(...)
UpsertFetch(w) ==
    /\ writers[w].pc = "idle"
    /\ \E end_id \in fetch_end_id(tables) :
          writers' = [writers EXCEPT ![w] =
              [pc |-> IF end_id = 0 THEN "insert_end" ELSE "delete",
               end_id |-> end_id, len_arrows |-> 0, i |-> 1]]
    /\ UNCHANGED <<tables, store_vars, conv, rest_vars>>

\* _upsert_end: INSERT INTO end
UpsertInsertEnd(w) ==
    /\ writers[w].pc = "insert_end"
    /\ IF tables.end_key_unique /\ tables.end # {}
       THEN /\ writers' = [writers EXCEPT ![w].pc = "failed"]
            /\ UNCHANGED tables
       ELSE /\ tables' = [tables EXCEPT !.end = @ \cup {Cardinality(@) + 1}]
            /\ writers' = [writers EXCEPT ![w].pc = "refetch"]
    /\ UNCHANGED <<store_vars, conv, rest_vars>>

\* _upsert_end: end_id = _fetch_end_id(...) after the insert
UpsertRefetch(w) ==
    /\ writers[w].pc = "refetch"
    /\ \E end_id \in fetch_end_id(tables) :
          writers' = [writers EXCEPT ![w].pc = "delete", ![w].end_id = end_id]
    /\ UNCHANGED <<tables, store_vars, conv, rest_vars>>

\* _upsert_end: DELETE FROM arrow WHERE end_id = :eid
UpsertDelete(w) ==
    /\ writers[w].pc = "delete"
    /\ tables' = [tables EXCEPT !.arrow = @ \ end_arrows(tables, writers[w].end_id)]
    /\ writers' = [writers EXCEPT ![w].pc = "insert"]
    /\ UNCHANGED <<store_vars, conv, rest_vars>>

\* _upsert_end: one INSERT INTO arrow of the loop
UpsertInsertArrow(w) ==
    /\ writers[w].pc = "insert"
    /\ LET i == writers[w].i
           t == insert_arrow(tables, writers[w].end_id, i, writer_values(w)[i], w)
       IN IF insert_arrow_raises(tables, writers[w].end_id, i)
          THEN /\ writers' = [writers EXCEPT ![w].pc = "failed"]
               /\ UNCHANGED tables
          ELSE /\ tables' = t
               /\ writers' = [writers EXCEPT ![w].i = i + 1,
                                ![w].pc = IF i = 6 THEN "done" ELSE "insert"]
    /\ UNCHANGED <<store_vars, conv, rest_vars>>

\* _render_arrow_editor: the arrows of an end of the list are fetched and
\* the selectboxes hold the values of the run
EditRender(w) ==
    /\ writers[w].pc = "idle"
    /\ \E end_id \in tables.end :
          \* new_vals != arrow_vals
          /\ ~(/\ Cardinality(end_arrows(tables, end_id)) = 6
               /\ \A r \in end_arrows(tables, end_id) :
                     r.arrow_value = writer_values(w)[r.arrow_no])
          /\ writers' = [writers EXCEPT ![w] =
              [pc |-> "persist", end_id |-> end_id,
               len_arrows |-> Cardinality(end_arrows(tables, end_id)), i |-> 1]]
    /\ UNCHANGED <<tables, store_vars, conv, rest_vars>>

\* _render_arrow_editor: one UPDATE or INSERT of the persist loop
EditPersist(w) ==
    /\ writers[w].pc = "persist"
    /\ LET i == writers[w].i
           end_id == writers[w].end_id
           update == i - 1 < writers[w].len_arrows
           t == IF update
                THEN [tables EXCEPT !.arrow =
                        {IF r.end_id = end_id /\ r.arrow_no = i
                         THEN [r EXCEPT !.arrow_value = writer_values(w)[i]]
                         ELSE r : r \in @}]
                ELSE insert_arrow(tables, end_id, i, writer_values(w)[i], w)
       IN IF ~update /\ insert_arrow_raises(tables, end_id, i)
          THEN /\ writers' = [writers EXCEPT ![w].pc = "failed"]
               /\ UNCHANGED tables
          ELSE /\ tables' = t
               /\ writers' = [writers EXCEPT ![w].i = i + 1,
                                ![w].pc = IF i = 6 THEN "done" ELSE "persist"]
    /\ UNCHANGED <<store_vars, conv, rest_vars>>

\* the end is not recorded yet, or is recorded with six M; the schema may
\* or may not declare the keys
InitRace ==
    /\ ranges = <<2>>
    /\ session_ids = 1..InitSessions
    /\ audit_table = TRUE
    /\ status = [s \in Sessions |-> "Preliminary"]
    /\ \E end_key_unique \in BOOLEAN, arrow_key_unique \in BOOLEAN, recorded \in BOOLEAN :
          tables = [end |-> IF recorded THEN {1} ELSE {},
                    arrow |-> IF recorded
                              THEN {[end_id |-> 1, arrow_no |-> n, arrow_value |-> "M", by |-> 0] :
                                        n \in 1..6}
                              ELSE {},
                    end_key_unique |-> end_key_unique,
                    arrow_key_unique |-> arrow_key_unique]
    /\ conv = unconverted(<<>>)
    /\ InitSidebar
    /\ InitRest
    /\ InitStore

NextRace ==
    \E w \in Writers :
        \/ UpsertFetch(w)
        \/ UpsertInsertEnd(w)
        \/ UpsertRefetch(w)
        \/ UpsertDelete(w)
        \/ UpsertInsertArrow(w)
        \/ EditRender(w)
        \/ EditPersist(w)

SpecRace == InitRace /\ [][NextRace]_vars

\* ------------------------------------------------------------------------
\* The conversions applied to a token
\* ------------------------------------------------------------------------
InitConv ==
    /\ ranges = <<2>>
    /\ session_ids = 1..InitSessions
    /\ audit_table = TRUE
    /\ status = [s \in Sessions |-> "Preliminary"]
    /\ tables = NoTables
    /\ conv \in {unconverted(token) : token \in Tokens}
    /\ InitSidebar
    /\ InitRest
    /\ InitStore

Convert ==
    /\ ~conv.converted
    /\ conv' = convert(conv.token)
    /\ UNCHANGED <<store_vars, tables, writers, rest_vars>>

SpecConv == InitConv /\ [][Convert]_vars

\* ------------------------------------------------------------------------
\* The navigator of the score-entry editor alone, every arrow left at M
\* ------------------------------------------------------------------------
\* rounds: two ranges of six ends, and a second range shorter than the first
WalkRounds == {<<6, 6>>, <<2, 1>>}

InitWalk ==
    /\ ranges \in WalkRounds
    /\ session_ids = 1..InitSessions
    /\ audit_table = TRUE
    /\ status = [s \in Sessions |-> "Preliminary"]
    /\ tables = NoTables
    /\ conv = unconverted(<<>>)
    /\ InitSidebar
    /\ InitRest
    /\ InitStore

NextWalk ==
    \/ \E s \in Sessions : ResumeDraft(s)
    \/ BackToHistory
    \/ \E e \in 1..ranges[entry.range_idx + 1] : SelectEnd(e)
    \/ \E r \in 0..(Len(ranges) - 1) : SelectRange(r)
    \/ \E direction \in {"prev", "next", "next_range", "submit"} : NavCallback(direction)

SpecWalk == InitWalk /\ [][NextWalk]_vars

\* the score-entry editor with arrow entry, on short rounds
EditorRounds == {<<2>>, <<1, 2>>, <<2, 1>>}

InitEditor ==
    /\ ranges \in EditorRounds
    /\ session_ids = 1..InitSessions
    /\ audit_table = TRUE
    /\ status = [s \in Sessions |-> "Preliminary"]
    /\ tables = NoTables
    /\ conv = unconverted(<<>>)
    /\ InitSidebar
    /\ InitRest
    /\ InitStore

NextEditor ==
    \/ \E s \in Sessions : ResumeDraft(s)
    \/ BackToHistory
    \/ \E values \in ArrowInputs : ArcherChangeArrows(values)
    \/ \E e \in 1..ranges[entry.range_idx + 1] : SelectEnd(e)
    \/ \E r \in 0..(Len(ranges) - 1) : SelectRange(r)
    \/ \E direction \in {"prev", "next", "next_range", "submit"} : NavCallback(direction)

SpecEditor == InitEditor /\ [][NextEditor]_vars

\* ------------------------------------------------------------------------
\* The recorder's status change, one SQL statement at a time
\* ------------------------------------------------------------------------
audit_frame ==
    <<ranges, session_ids, arrows, final_total, audit_table, today, entry, rec_view, bulk,
      tables, writers, conv, auth, sections, more_vars>>

\* show_recorder_approval loads the sessions; the recorder picks one and a
\* new status in the status editor and presses Apply
RunLoad(r, s, new_status) ==
    /\ runs[r].pc = "idle"
    /\ s \in session_ids
    /\ ~protected_comp
    /\ runs' = [runs EXCEPT ![r] = [pc |-> "loaded", session_id |-> s,
                                    old_status |-> status[s], new_status |-> new_status,
                                    was |-> ""]]
    /\ UNCHANGED <<status, audit, audit_frame>>

\* _update_session_status: UPDATE session SET status; was keeps the status
\* the row had when the statement ran
RunUpdate(r) ==
    /\ runs[r].pc = "loaded"
    /\ status' = [status EXCEPT ![runs[r].session_id] = runs[r].new_status]
    /\ runs' = [runs EXCEPT ![r].pc = "updated", ![r].was = status[runs[r].session_id]]
    /\ UNCHANGED <<audit, audit_frame>>

\* _update_session_status: INSERT INTO session_audit
RunAudit(r) ==
    /\ runs[r].pc = "updated"
    /\ audit' = IF audit_table
                THEN Append(audit, [session_id |-> runs[r].session_id,
                                    old_status |-> runs[r].old_status,
                                    new_status |-> runs[r].new_status,
                                    changed_by |-> RecorderId])
                ELSE audit
    /\ runs' = [runs EXCEPT ![r].pc = "done"]
    /\ UNCHANGED <<status, audit_frame>>

NextAudit ==
    \/ \E r \in Recorders, s \in Sessions, new_status \in Status : RunLoad(r, s, new_status)
    \/ \E r \in Recorders : RunUpdate(r)
    \/ \E r \in Recorders : RunAudit(r)
    \/ \E s \in Sessions : ResumeDraft(s)
    \/ \E direction \in {"prev", "next", "next_range", "submit"} : NavCallback(direction)

SpecAudit == Init /\ [][NextAudit]_vars

\* ------------------------------------------------------------------------
\* The championship ladder page over any session rows
\* ------------------------------------------------------------------------
InitLadder ==
    /\ ranges = <<2>>
    /\ session_ids = 1..InitSessions
    /\ audit_table = TRUE
    /\ status = [s \in Sessions |-> "Preliminary"]
    /\ tables = NoTables
    /\ conv = unconverted(<<>>)
    /\ InitSidebar
    /\ InitRuns
    /\ InitTabs
    /\ ladder \in {NoLadder(sessions, rules) :
                       sessions \in [1..NumLadderSessions -> SessionRows], rules \in RuleSets}
    /\ InitStore

ShowLadder ==
    /\ ~ladder.shown
    /\ ladder' = [ladder EXCEPT !.shown = TRUE,
                                !.rows = display_df(ladder.sessions, ladder.rules)]
    /\ UNCHANGED <<store_vars, tables, writers, conv, auth, sections, runs, archery_db, tabs>>

SpecLadder == InitLadder /\ [][ShowLadder]_vars

\* ------------------------------------------------------------------------
\* The score-entry page in two tabs, statement by statement
\* ------------------------------------------------------------------------
tabs_frame == <<store_vars, tables, writers, conv, auth, sections, runs, ladder>>

InitRows ==
    /\ ranges = <<2>>
    /\ session_ids = 1..InitSessions
    /\ audit_table = TRUE
    /\ status = [s \in Sessions |-> "Preliminary"]
    /\ tables = NoTables
    /\ conv = unconverted(<<>>)
    /\ InitSidebar
    /\ InitRuns
    /\ InitLadderIdle
    /\ archery_db \in {[NoRows EXCEPT !.foreign_keys = fk] : fk \in ForeignKeys}
    /\ tabs = [t \in Tabs |-> NoTab]
    /\ InitStore

Pages == {"launcher", "error", "warning", "editor", "exception"}

session_exists(d, session_id) == \E s \in d.session : s.id = session_id

\* "Start Session": INSERT INTO session of _create_session
CreateInsert(t, round_id, comp_id) ==
    /\ tabs[t].pc = "launcher"
    /\ archery_db.next_session_id <= MaxSessionRows
    /\ archery_db' =
          [archery_db EXCEPT
              !.session = @ \cup {[id |-> archery_db.next_session_id, member_id |-> ArcherId,
                                   round_id |-> round_id, status |-> "Preliminary"]},
              !.next_session_id = @ + 1]
    /\ tabs' = [tabs EXCEPT ![t].pc = "created",
                            ![t].inserted = archery_db.next_session_id,
                            ![t].comp_id = comp_id]
    /\ UNCHANGED tabs_frame

\* SELECT id FROM session WHERE member_id = :mid ORDER BY id DESC LIMIT 1;
\* 0 when there is no row
last_session_id(d, member_id) ==
    LET ids == {s.id : s \in {x \in d.session : x.member_id = member_id}}
    IN IF ids = {} THEN 0 ELSE CHOOSE id \in ids : \A other \in ids : other <= id

\* the SELECT of _create_session and its return
CreateSelect(t) ==
    /\ tabs[t].pc = "created"
    /\ LET id == last_session_id(archery_db, ArcherId)
       IN tabs' = IF id = 0
                  THEN [tabs EXCEPT ![t] = raised(tabs[t])]
                  ELSE [tabs EXCEPT ![t].pc = "selected", ![t].new_session_id = id]
    /\ UNCHANGED <<archery_db, tabs_frame>>

\* the end of the "Start Session" handler: score_entry_session_id is set and
\* the rerun renders the page
session_started(d, tab) ==
    show_score_entry(d, [tab EXCEPT !.session_id = tab.new_session_id])

\* _link_session_to_competition up to its INSERT: the DELETE for
\* "Unassigned", else _find_category_for_session, which finds no category
\* for a missing session
CreateLink(t) ==
    /\ tabs[t].pc = "selected"
    /\ IF tabs[t].comp_id = 0
       THEN /\ archery_db' =
                  [archery_db EXCEPT !.competition_entry =
                      {ce \in @ : ce.session_id # tabs[t].new_session_id}]
            /\ tabs' = [tabs EXCEPT ![t] = session_started(archery_db', tabs[t])]
       ELSE /\ tabs' = IF session_exists(archery_db, tabs[t].new_session_id)
                       THEN [tabs EXCEPT ![t].pc = "categorised"]
                       ELSE [tabs EXCEPT ![t] = raised(tabs[t])]
            /\ UNCHANGED archery_db
    /\ UNCHANGED tabs_frame

\* INSERT INTO competition_entry ... ON DUPLICATE KEY UPDATE
CreateEntry(t) ==
    /\ tabs[t].pc = "categorised"
    /\ IF fk_raises(archery_db, session_exists(archery_db, tabs[t].new_session_id))
       THEN /\ tabs' = [tabs EXCEPT ![t] = raised(tabs[t])]
            /\ UNCHANGED archery_db
       ELSE /\ archery_db' =
                  [archery_db EXCEPT !.competition_entry =
                      {ce \in @ : ce.session_id # tabs[t].new_session_id}
                      \cup {[session_id |-> tabs[t].new_session_id,
                             competition_id |-> tabs[t].comp_id]}]
            /\ tabs' = [tabs EXCEPT ![t] = session_started(archery_db', tabs[t])]
    /\ UNCHANGED tabs_frame

\* _list_member_drafts
list_member_drafts(d, member_id) ==
    {s \in d.session : s.member_id = member_id /\ s.status = "Preliminary"}

\* Drafts tab of the launcher: a draft is selected and the page reruns
OpenDraft(t, session_id) ==
    /\ tabs[t].pc = "launcher"
    /\ \E s \in list_member_drafts(archery_db, ArcherId) : s.id = session_id
    /\ tabs' = [tabs EXCEPT ![t] =
                   show_score_entry(archery_db, [tabs[t] EXCEPT !.session_id = session_id])]
    /\ UNCHANGED <<archery_db, tabs_frame>>

\* a rerun of the page without a click
Rerun(t) ==
    /\ tabs[t].pc \in Pages
    /\ tabs' = [tabs EXCEPT ![t] = show_score_entry(archery_db, tabs[t])]
    /\ UNCHANGED <<archery_db, tabs_frame>>

\* "Back to Score History" and the return to the page
TabBack(t) ==
    /\ tabs[t].pc \in Pages
    /\ tabs' = [tabs EXCEPT ![t] =
                   [reset_score_entry_state(run_ended(tabs[t])) EXCEPT !.pc = "launcher"]]
    /\ UNCHANGED <<archery_db, tabs_frame>>

\* the part of a run before a write: the session is fetched again; the
\* write starts at pc when the session is still a draft, else the page is
\* rendered again
fetch_then(d, tab, pc) ==
    IF \E s \in fetch_session(d, tab.session_id, ArcherId) : s.status = "Preliminary"
    THEN [tab EXCEPT !.pc = pc]
    ELSE show_score_entry(d, tab)

\* an arrow selectbox of an editable end is changed: the rerun auto-saves
TabChangeArrows(t) ==
    /\ tabs[t].pc = "editor"
    /\ tabs[t].editable
    /\ tabs' = [tabs EXCEPT ![t] =
                   fetch_then(archery_db, [tabs[t] EXCEPT !.direction = ""], "upsert_fetch")]
    /\ UNCHANGED <<archery_db, tabs_frame>>

\* UPDATE session SET status = 'Final' of the submit branch of _nav_callback;
\* the final_total column it then updates is kept in final_total above
nav_rows(d, tab) ==
    IF tab.direction = "submit"
    THEN [d EXCEPT !.session =
             {IF s.id = tab.session_id THEN [s EXCEPT !.status = "Final"] ELSE s : s \in @}]
    ELSE d

\* step 2 of _nav_callback and the render of the rerun
nav_tab(d, tab) ==
    LET new_position == nav_position(tab.ranges, tab.editor.range_idx, tab.editor.end_no,
                                     tab.direction)
    IN show_score_entry(d, [tab EXCEPT !.editor.range_idx = new_position[1],
                                        !.editor.end_no = new_position[2],
                                        !.direction = ""])

\* click on Previous / Next / Next Range / Submit for Review: _nav_callback
\* runs with the arguments bound at the last render
TabNavClick(t, direction) ==
    /\ tabs[t].pc = "editor"
    /\ \/ direction = "prev" /\ tabs[t].editor.end_no > 1
       \/ /\ direction = next_button(tabs[t].ranges, tabs[t].editor.range_idx,
                                      tabs[t].editor.end_no)
          /\ direction = "submit" => tabs[t].editable
    /\ IF tabs[t].editable
       THEN /\ tabs' = [tabs EXCEPT ![t].pc = "upsert_fetch", ![t].direction = direction]
            /\ UNCHANGED archery_db
       ELSE /\ archery_db' = nav_rows(archery_db, [tabs[t] EXCEPT !.direction = direction])
            /\ tabs' = [tabs EXCEPT ![t] =
                           nav_tab(archery_db', [tabs[t] EXCEPT !.direction = direction])]
    /\ UNCHANGED tabs_frame

\* the end the editor of the tab shows
end_rows(d, tab) ==
    {e \in d.end : /\ e.session_id = tab.session_id
                   /\ e.round_range_id = tab.editor.range_idx + 1
                   /\ e.end_no = tab.editor.end_no}

\* _upsert_end: _fetch_end_id
TabFetchEnd(t) ==
    /\ tabs[t].pc = "upsert_fetch"
    /\ \/ /\ end_rows(archery_db, tabs[t]) = {}
          /\ tabs' = [tabs EXCEPT ![t].pc = "upsert_insert"]
       \/ \E e \in end_rows(archery_db, tabs[t]) :
             tabs' = [tabs EXCEPT ![t].pc = "upsert_delete", ![t].end_id = e.id]
    /\ UNCHANGED <<archery_db, tabs_frame>>

\* _upsert_end: INSERT INTO `end`
TabInsertEnd(t) ==
    /\ tabs[t].pc = "upsert_insert"
    /\ archery_db.next_end_id <= MaxEndRows
    /\ IF fk_raises(archery_db, session_exists(archery_db, tabs[t].session_id))
       THEN /\ tabs' = [tabs EXCEPT ![t] = raised(tabs[t])]
            /\ UNCHANGED archery_db
       ELSE /\ archery_db' =
                  [archery_db EXCEPT
                      !.end = @ \cup {[id |-> archery_db.next_end_id,
                                       session_id |-> tabs[t].session_id,
                                       round_range_id |-> tabs[t].editor.range_idx + 1,
                                       end_no |-> tabs[t].editor.end_no]},
                      !.next_end_id = @ + 1]
            /\ tabs' = [tabs EXCEPT ![t].pc = "upsert_refetch"]
    /\ UNCHANGED tabs_frame

\* _upsert_end: _fetch_end_id after the INSERT, RuntimeError without a row
TabRefetchEnd(t) ==
    /\ tabs[t].pc = "upsert_refetch"
    /\ \/ /\ end_rows(archery_db, tabs[t]) = {}
          /\ tabs' = [tabs EXCEPT ![t] = raised(tabs[t])]
       \/ \E e \in end_rows(archery_db, tabs[t]) :
             tabs' = [tabs EXCEPT ![t].pc = "upsert_delete", ![t].end_id = e.id]
    /\ UNCHANGED <<archery_db, tabs_frame>>

\* _upsert_end: DELETE FROM arrow WHERE end_id = :eid
TabDeleteArrows(t) ==
    /\ tabs[t].pc = "upsert_delete"
    /\ archery_db' = [archery_db EXCEPT !.arrow = {a \in @ : a.end_id # tabs[t].end_id}]
    /\ tabs' = [tabs EXCEPT ![t].pc = "upsert_arrow", ![t].i = 1]
    /\ UNCHANGED tabs_frame

\* _upsert_end: INSERT INTO arrow for arrow i; after the sixth the callback
\* goes on with its step 2 and the page reruns
TabInsertArrow(t) ==
    /\ tabs[t].pc = "upsert_arrow"
    /\ IF fk_raises(archery_db, \E e \in archery_db.end : e.id = tabs[t].end_id)
       THEN /\ tabs' = [tabs EXCEPT ![t] = raised(tabs[t])]
            /\ UNCHANGED archery_db
       ELSE LET inserted == [archery_db EXCEPT
                                !.arrow = @ \cup {[end_id |-> tabs[t].end_id,
                                                   arrow_no |-> tabs[t].i,
                                                   arrow_value |-> SavedValue]}]
            IN IF tabs[t].i < 6
               THEN /\ archery_db' = inserted
                    /\ tabs' = [tabs EXCEPT ![t].i = @ + 1]
               ELSE /\ archery_db' = nav_rows(inserted, tabs[t])
                    /\ tabs' = [tabs EXCEPT ![t] = nav_tab(archery_db', tabs[t])]
    /\ UNCHANGED tabs_frame

\* click on Delete Draft: the rerun fetches the session and renders the
\* button for a draft only
TabDeleteDraft(t) ==
    /\ tabs[t].pc = "editor"
    /\ tabs[t].editable
    /\ tabs' = [tabs EXCEPT ![t] = fetch_then(archery_db, tabs[t], "delete_arrow")]
    /\ UNCHANGED <<archery_db, tabs_frame>>

\* the ends, and the arrows of the ends, of a session
session_ends(d, session_id) == {e \in d.end : e.session_id = session_id}

session_arrows(d, session_id) ==
    {a \in d.arrow : \E e \in session_ends(d, session_id) : e.id = a.end_id}

\* _delete_session: DELETE FROM arrow WHERE end_id IN (SELECT id FROM `end` ...)
TabDeleteArrowRows(t) ==
    /\ tabs[t].pc = "delete_arrow"
    /\ archery_db' = [archery_db EXCEPT !.arrow = @ \ session_arrows(archery_db, tabs[t].session_id)]
    /\ tabs' = [tabs EXCEPT ![t].pc = "delete_end"]
    /\ UNCHANGED tabs_frame

\* _delete_session: DELETE FROM `end` WHERE session_id = :sid
TabDeleteEndRows(t) ==
    /\ tabs[t].pc = "delete_end"
    /\ IF /\ archery_db.foreign_keys = "restrict"
          /\ session_arrows(archery_db, tabs[t].session_id) # {}
       THEN /\ tabs' = [tabs EXCEPT ![t] = raised(tabs[t])]
            /\ UNCHANGED archery_db
       ELSE /\ archery_db' =
                  [archery_db EXCEPT
                      !.end = @ \ session_ends(archery_db, tabs[t].session_id),
                      !.arrow = IF archery_db.foreign_keys = "cascade"
                                THEN @ \ session_arrows(archery_db, tabs[t].session_id)
                                ELSE @]
            /\ tabs' = [tabs EXCEPT ![t].pc = "delete_entry"]
    /\ UNCHANGED tabs_frame

\* _delete_session: DELETE FROM competition_entry WHERE session_id = :sid
TabDeleteEntryRows(t) ==
    /\ tabs[t].pc = "delete_entry"
    /\ archery_db' = [archery_db EXCEPT !.competition_entry =
                         {ce \in @ : ce.session_id # tabs[t].session_id}]
    /\ tabs' = [tabs EXCEPT ![t].pc = "delete_session"]
    /\ UNCHANGED tabs_frame

\* _delete_session: DELETE FROM session, then _reset_score_entry_state and
\* the rerun
TabDeleteSessionRow(t) ==
    /\ tabs[t].pc = "delete_session"
    /\ LET sid == tabs[t].session_id
           children == \/ session_ends(archery_db, sid) # {}
                       \/ \E ce \in archery_db.competition_entry : ce.session_id = sid
       IN IF archery_db.foreign_keys = "restrict" /\ children
          THEN /\ tabs' = [tabs EXCEPT ![t] = raised(tabs[t])]
               /\ UNCHANGED archery_db
          ELSE /\ archery_db' =
                     IF archery_db.foreign_keys = "cascade"
                     THEN [archery_db EXCEPT
                              !.session = {s \in @ : ~(s.id = sid /\ s.member_id = ArcherId)},
                              !.end = @ \ session_ends(archery_db, sid),
                              !.arrow = @ \ session_arrows(archery_db, sid),
                              !.competition_entry = {ce \in @ : ce.session_id # sid}]
                     ELSE [archery_db EXCEPT
                              !.session = {s \in @ : ~(s.id = sid /\ s.member_id = ArcherId)}]
               /\ tabs' = [tabs EXCEPT ![t] =
                              [reset_score_entry_state(run_ended(tabs[t])) EXCEPT
                                  !.pc = "launcher"]]
    /\ UNCHANGED tabs_frame

NextRows ==
    \/ \E t \in Tabs, round_id \in Rounds, comp_id \in Competitions :
          CreateInsert(t, round_id, comp_id)
    \/ \E t \in Tabs : CreateSelect(t)
    \/ \E t \in Tabs : CreateLink(t)
    \/ \E t \in Tabs : CreateEntry(t)
    \/ \E t \in Tabs, session_id \in 1..MaxSessionRows : OpenDraft(t, session_id)
    \/ \E t \in Tabs : Rerun(t)
    \/ \E t \in Tabs : TabBack(t)
    \/ \E t \in Tabs : TabChangeArrows(t)
    \/ \E t \in Tabs, direction \in {"prev", "next", "next_range", "submit"} :
          TabNavClick(t, direction)
    \/ \E t \in Tabs : TabFetchEnd(t)
    \/ \E t \in Tabs : TabInsertEnd(t)
    \/ \E t \in Tabs : TabRefetchEnd(t)
    \/ \E t \in Tabs : TabDeleteArrows(t)
    \/ \E t \in Tabs : TabInsertArrow(t)
    \/ \E t \in Tabs : TabDeleteDraft(t)
    \/ \E t \in Tabs : TabDeleteArrowRows(t)
    \/ \E t \in Tabs : TabDeleteEndRows(t)
    \/ \E t \in Tabs : TabDeleteEntryRows(t)
    \/ \E t \in Tabs : TabDeleteSessionRow(t)

SpecRows == InitRows /\ [][NextRows]_vars

\* ------------------------------------------------------------------------
\* The sidebar: render_sidebar builds the sections from the auth state
\* ------------------------------------------------------------------------
page_vars == <<store_vars, tables, writers, conv, runs, more_vars>>

\* any AuthState, as the unit tests build them
InitNav ==
    /\ ranges = <<2>>
    /\ session_ids = 1..InitSessions
    /\ audit_table = TRUE
    /\ status = [s \in Sessions |-> "Preliminary"]
    /\ tables = NoTables
    /\ conv = unconverted(<<>>)
    /\ auth \in AuthStates
    /\ sections = NoSections
    /\ InitRest
    /\ InitStore

\* render_sidebar on a rerun without a click
RenderSidebar ==
    /\ sections' = visible_sections(auth)
    /\ UNCHANGED <<auth, page_vars>>

\* _render_login_panel: "Log in" with a member id; st.rerun() after _set_auth
Login(member_id) ==
    /\ ~auth.logged_in
    /\ LET profile == load_member_profile(member_id)
       IN auth' = IF profile.id = NULL THEN auth
                  ELSE [logged_in |-> TRUE, id |-> profile.id, name |-> profile.full_name,
                        is_recorder |-> profile.is_recorder, av |-> profile.av_number]
    /\ sections' = visible_sections(auth')
    /\ UNCHANGED page_vars

\* _render_profile_panel: "Logout"; st.rerun() after _reset_auth
Logout ==
    /\ auth.logged_in
    /\ auth' = AuthState
    /\ sections' = visible_sections(auth')
    /\ UNCHANGED page_vars

NextNav ==
    \/ RenderSidebar
    \/ \E member_id \in 0..NumMembers : Login(member_id)
    \/ Logout

SpecNav == InitNav /\ [][NextNav]_vars

\* ------------------------------------------------------------------------
\* Properties
\* ------------------------------------------------------------------------
\* position of a status in the order Preliminary < Final < Confirmed
StatusRank(st) == CHOOSE i \in 1..Len(StatusOptions) : StatusOptions[i] = st

Submitted == {"Final", "Confirmed"}

SessionFrozen(s) == status'[s] = status[s] /\ arrows'[s] = arrows[s]

GroupStep(new_bulk_status, fail) ==
    \E current_status_filter \in SUBSET Status, av_filter \in AvFilters :
        RecGroupApprove(current_status_filter, av_filter, new_bulk_status, fail)

RaiseSets == {f \in SUBSET session_ids : Cardinality(f) <= MaxRaise}

\* C1: no step takes the stored status of a session backward in the order
\* Preliminary < Final < Confirmed.
C1_StatusNeverMovesBackward ==
    [][\A s \in session_ids : StatusRank(status'[s]) >= StatusRank(status[s])]_vars

\* C2: a recorder request to set a Final or Confirmed session to Preliminary
\* leaves the stored status unchanged, in the status editor and in the group
\* change under any filters; the group change counts the session as skipped.
C2_RevertRejected ==
    [][/\ \A s \in session_ids :
            (status[s] \in Submitted /\ RecApplyStatus(s, "Preliminary"))
                => status'[s] = status[s]
       /\ (\E fail \in RaiseSets : GroupStep("Preliminary", fail))
            => LET given == bulk'.sessions
                   blocked == {i \in 1..Len(given) : given[i].status \in Submitted}
               IN /\ \A i \in blocked : status'[given[i].session_id] = given[i].status
                  /\ bulk'.skipped_count >= Cardinality(blocked)
                  /\ bulk'.success_count + bulk'.error_count
                        <= Len(given) - Cardinality(blocked)]_vars

\* C3: once today is past the end date of the competition, a step that
\* changes the arrows or the status of a session entered in it, or that
\* renders the recorder's score editor other than view-only, is not a step
\* of the recorder (arrow editor, status editor, group change).
C3_LockedRecorderFrozen ==
    [][(/\ today > comp_end_date
        /\ \/ \E s \in session_ids : ~SessionFrozen(s)
           \/ (rec_view' # rec_view /\ rec_view' # " (View Only)"))
          => ~RecorderStep]_vars

C3_Witness ==
    /\ today > comp_end_date
    /\ rec_view = " (View Only)"
    /\ \E s \in session_ids, k \in EndKeys : arrows[s][k] \notin {NoEnd, AllM}

\* C4: once today is past the end date of the competition, no operation of
\* the archer's pages changes the arrows, ends or status of a session
\* entered in it.
C4_LockedArcherFrozen ==
    [][(today > comp_end_date /\ ArcherStep)
          => \A s \in session_ids : SessionFrozen(s)]_vars

\* C5: no operation of the archer's pages changes the arrows or ends of a
\* session whose stored status is Final or Confirmed.
C5_SubmittedArrowsFrozen ==
    [][ArcherStep
          => \A s \in session_ids :
                status[s] \in Submitted => arrows'[s] = arrows[s]]_vars

\* C6: Submit for Review on a session that is already Final or Confirmed
\* changes neither its status nor its final_total.
C6_SubmitOnlyFromPreliminary ==
    [][(NavCallback("submit") /\ status[entry.session_id] \in Submitted)
          => /\ status'[entry.session_id] = status[entry.session_id]
             /\ final_total'[entry.session_id] = final_total[entry.session_id]]_vars

\* C7: submitting a Preliminary session makes it Final, and a session
\* becomes Confirmed only by a step of the recorder.
C7_ConfirmedOnlyByRecorder ==
    [][/\ (NavCallback("submit") /\ status[entry.session_id] = "Preliminary")
            => status'[entry.session_id] = "Final"
       /\ \A s \in session_ids :
            (status[s] # "Confirmed" /\ status'[s] = "Confirmed") => RecorderStep]_vars

\* C9: Apply of the status editor with the status the session already has
\* leaves the status as it is and appends no audit row.
C9_SameStatusNoOp ==
    [][\A s \in session_ids :
          RecApplyStatus(s, status[s]) => (status' = status /\ audit' = audit)]_vars

\* the sessions given to a group change, split by what the claim says
\* happens to each: already at the target, UPDATE raised, the others
GivenIdx == 1..Len(bulk'.sessions)

GivenId(i) == bulk'.sessions[i].session_id

AtTarget == {i \in GivenIdx : bulk'.sessions[i].status = bulk'.new_status}

Raising == {i \in GivenIdx : GivenId(i) \in bulk'.raised}

Changing == (GivenIdx \ AtTarget) \ Raising

GivenStatuses == [i \in GivenIdx |-> bulk'.sessions[i].status]

\* the step is a group change of the sessions left by some filters
GroupChange ==
    /\ bulk' # NoBulk
    /\ \E current_status_filter \in SUBSET Status, av_filter \in AvFilters :
          /\ editable_sessions(filtered_sessions(current_status_filter, av_filter))
                = bulk'.sessions
          /\ \E fail \in RaiseSets :
                RecGroupApprove(current_status_filter, av_filter, bulk'.new_status, fail)

\* C8: a group change puts every session it is given in exactly one of
\* updated (status changed to the target), skipped (already at the target,
\* not written), failed (UPDATE raised); the three counts are the sizes of
\* these groups and add up to the number given; [Preliminary, Final,
\* Confirmed] to Confirmed with no error gives 2, 1, 0.
C8_GroupOutcomes ==
    [][GroupChange
          => /\ AtTarget \cap Raising = {}
             /\ \A i \in AtTarget : status'[GivenId(i)] = status[GivenId(i)]
             /\ \A i \in Raising : status'[GivenId(i)] = status[GivenId(i)]
             /\ \A i \in Changing :
                    /\ status[GivenId(i)] # bulk'.new_status
                    /\ status'[GivenId(i)] = bulk'.new_status
             /\ bulk'.skipped_count = Cardinality(AtTarget)
             /\ bulk'.error_count = Cardinality(Raising)
             /\ bulk'.success_count = Cardinality(Changing)
             /\ bulk'.success_count + bulk'.skipped_count + bulk'.error_count
                    = Len(bulk'.sessions)
             /\ (/\ GivenStatuses = <<"Preliminary", "Final", "Confirmed">>
                 /\ bulk'.new_status = "Confirmed"
                 /\ Raising = {})
                => /\ bulk'.success_count = 2
                   /\ bulk'.skipped_count = 1
                   /\ bulk'.error_count = 0]_vars

C8_Witness ==
    /\ Len(bulk.sessions) = 3
    /\ [i \in 1..3 |-> bulk.sessions[i].status] = <<"Preliminary", "Final", "Confirmed">>
    /\ bulk.new_status = "Confirmed"
    /\ bulk.success_count = 2 /\ bulk.skipped_count = 1 /\ bulk.error_count = 0
    /\ \A s \in session_ids : status[s] = "Confirmed"

\* C10: a group change in which the UPDATE of a session raises counts that
\* session as failed, leaves its status as it was, and still changes every
\* other session given that is not already at the target, before and after
\* the failing one.
C10_GroupContinuesOnError ==
    [][(bulk'.raised # {} /\ GroupChange)
          => /\ \A i \in GivenIdx :
                    IF i \in Raising
                    THEN status'[GivenId(i)] = status[GivenId(i)]
                    ELSE status'[GivenId(i)] = bulk'.new_status
             /\ bulk'.error_count = Cardinality(Raising)
             /\ bulk'.success_count + bulk'.skipped_count
                    = Len(bulk'.sessions) - Cardinality(Raising)]_vars

C10_Witness ==
    /\ bulk.error_count = 1
    /\ \E i, j, k \in 1..Len(bulk.sessions) :
          /\ i < j /\ j < k
          /\ bulk.sessions[j].session_id \in bulk.raised
          /\ status[bulk.sessions[j].session_id] = bulk.sessions[j].status
          /\ \A x \in {i, k} :
                /\ bulk.sessions[x].status # bulk.new_status
                /\ status[bulk.sessions[x].session_id] = bulk.new_status

\* C11: the audit log only grows at its end, and while the audit table
\* exists every step of the archer's pages or of the recorder that changes
\* the status of a session appends exactly one row for it, with the old
\* status, the new status and the member who made the change.
C11_EveryTransitionAudited ==
    [][/\ Len(audit') >= Len(audit)
       /\ SubSeq(audit', 1, Len(audit)) = audit
       /\ \A s \in session_ids :
            (audit_table /\ status'[s] # status[s] /\ (ArcherStep \/ RecorderStep))
            => Cardinality({i \in (Len(audit) + 1)..Len(audit') :
                              /\ audit'[i].session_id = s
                              /\ audit'[i].old_status = status[s]
                              /\ audit'[i].new_status = status'[s]
                              /\ audit'[i].changed_by \in {ArcherId, RecorderId}}) = 1]_vars

\* C12: when the audit table is missing, Apply of the status editor still
\* stores the status selected and a group change still changes and counts
\* as updated every session whose UPDATE did not raise; the audit log stays
\* as it was.
C12_AuditFailureTolerated ==
    [][~audit_table
          => /\ \A s \in session_ids, new_status \in Status :
                    RecApplyStatus(s, new_status)
                    => (status'[s] = new_status /\ audit' = audit)
             /\ GroupChange
                    => /\ \A i \in Changing : status'[GivenId(i)] = bulk'.new_status
                       /\ bulk'.success_count = Cardinality(Changing)
                       /\ bulk'.error_count = Cardinality(Raising)
                       /\ audit' = audit]_vars

C12_Witness ==
    /\ ~audit_table
    /\ audit = <<>>
    /\ bulk.success_count = 2
    /\ bulk.error_count = 0
    /\ \E i \in 1..Len(bulk.sessions) :
          /\ bulk.sessions[i].status # bulk.new_status
          /\ status[bulk.sessions[i].session_id] = bulk.new_status

C14_ConfirmedTotalCurrent ==
    [][\A s \in session_ids :
          (/\ status'[s] = "Confirmed"
           /\ (status[s] # "Confirmed" \/ arrows'[s] # arrows[s])
           /\ RecorderStep)
          => final_total'[s] = compute_session_total(arrows', s)]_vars

\* ------------------------------------------------------------------------
\* Leaderboard pages: projections of the store over the session rows ids
\* ------------------------------------------------------------------------
\* sessions with arrow rows (the inner joins with end and arrow)
scored_sessions(ids) == {s \in ids : \E k \in EndKeys : arrows[s][k] # NoEnd}

\* WITH session_totals ... WHERE s.status = 'Confirmed'
session_totals(ids) ==
    {[session_id  |-> s,
      member_id   |-> session_member[s],
      total_score |-> compute_session_total(arrows, s)] :
        s \in {x \in scored_sessions(ids) : status[x] = "Confirmed"}}

\* ROW_NUMBER() ... ORDER BY total_score DESC, ..., session_id ASC, rn = 1
ranked_first(rows) ==
    {r \in rows : \A q \in rows :
        \/ q.total_score < r.total_score
        \/ (q.total_score = r.total_score /\ q.session_id >= r.session_id)}

show_my_personal_bests(ids, member_id) ==
    ranked_first({r \in session_totals(ids) : r.member_id = member_id})

show_club_records(ids) == ranked_first(session_totals(ids))

\* score_rows of the configurable championship ladder
show_championship_ladder(ids) == session_totals(ids)

show_competition_results(ids) ==
    {[session_id |-> s, total_score |-> final_total[s]] :
        s \in {x \in ids : status[x] = "Confirmed" /\ final_total[x] # NULL}}

\* SUM(ce.final_total): NULL totals are left out, a sum of none is NULL
RECURSIVE sum_final_total(_)
sum_final_total(ss) ==
    IF ss = {} THEN 0
    ELSE LET s == CHOOSE x \in ss : TRUE
         IN final_total[s] + sum_final_total(ss \ {s})

\* pages/5_Championship_Ladder.py: one row per member with an entry
championship_ladder_page(ids) ==
    {[av_number   |-> m,
      total_score |-> LET entered == {s \in ids : session_member[s] = m /\ final_total[s] # NULL}
                      IN IF entered = {} THEN NULL ELSE sum_final_total(entered)] :
        m \in {session_member[s] : s \in ids}}

\* C15: every leaderboard shows what it would show if the Confirmed sessions
\* were the only sessions stored: a Preliminary or Final session is in no
\* row and changes no total of personal bests, club records, the
\* championship ladders and competition results.
C15_OnlyConfirmedCount ==
    LET confirmed == {s \in session_ids : status[s] = "Confirmed"}
    IN /\ \A m \in {session_member[s] : s \in Sessions} :
              show_my_personal_bests(session_ids, m) = show_my_personal_bests(confirmed, m)
       /\ show_club_records(session_ids) = show_club_records(confirmed)
       /\ show_championship_ladder(session_ids) = show_championship_ladder(confirmed)
       /\ show_competition_results(session_ids) = show_competition_results(confirmed)
       /\ championship_ladder_page(session_ids) = championship_ladder_page(confirmed)

\* C16: every recorded end has exactly six arrows, numbered 1 to 6, each
\* holding one of the arrow tokens (M for a slot never entered).
C16_SixArrowsPerEnd ==
    \A s \in session_ids, k \in EndKeys :
        arrows[s][k] # NoEnd
        => /\ DOMAIN arrows[s][k] = 1..6
           /\ \A i \in 1..6 : \E c \in 1..Len(ARROW_CHOICES) : arrows[s][k][i] = ARROW_CHOICES[c]

C16_Witness ==
    \E s \in session_ids :
        /\ status[s] = "Final"
        /\ final_total[s] = 43
        /\ arrows[s][<<1, 1>>] = AllM
        /\ arrows[s][<<1, 2>>] = AllM

\* C17: there is at most one end row per (session, round_range, end_no) in
\* every reachable state, also after two saves of the same end, not recorded
\* yet, whose statements interleave.
C17_OneEndRowPerKey == Cardinality(tables.end) <= 1

\* C18: once two concurrent saves of the same end have both finished, the
\* stored arrows of the end are the six values of one of the two writers, one
\* row per arrow number 1..6; stated for the schema that declares both keys
\* UNIQUE, where the end has one end row.
C18_LastWriteWins ==
    (/\ tables.end_key_unique
     /\ tables.arrow_key_unique
     /\ \A w \in Writers : writers[w].pc = "done")
    => /\ Cardinality(tables.arrow) = 6
       /\ \E w \in Writers :
             {<<r.arrow_no, r.arrow_value>> : r \in tables.arrow}
                 = {<<i, writer_values(w)[i]>> : i \in 1..6}

\* C20: each conversion returns 10 for X, 0 for M, n for the tokens 1 to 10
\* and 0 for every other or empty token (11, -3, a word), whatever the letter
\* case and the surrounding whitespace, and the conversions agree.
C20_ConversionTable ==
    conv.converted =>
        LET token == upper(strip(conv.token))
            expected == IF token = <<"X">> THEN 10
                        ELSE IF token = <<"M">> THEN 0
                        ELSE IF ~int_raises(token) /\ int(token) \in 1..10 THEN int(token)
                        ELSE 0
        IN /\ conv.score_entry = expected
           /\ conv.recorder_approval = expected
           /\ conv.score_history = expected
           /\ conv.viz_utils = expected

\* _build_summary_rows: one row per recorded end with its end_total
build_summary_rows(arr, session_id) ==
    [k \in {x \in EndKeys : arr[session_id][x] # NoEnd} |-> SumScores(arr[session_id][k])]

\* the Score column of the range summary, added up
RECURSIVE sum_end_totals(_)
sum_end_totals(rows) ==
    IF DOMAIN rows = {} THEN 0
    ELSE LET k == CHOOSE x \in DOMAIN rows : TRUE
         IN rows[k] + sum_end_totals([x \in DOMAIN rows \ {k} |-> rows[x]])

\* _render_score_editor: end_total = sum(_score_from_value(val) for val in arrow_values)
RECURSIVE end_total(_)
end_total(arrow_values) ==
    IF arrow_values = <<>> THEN 0
    ELSE score_from_value(chars(Head(arrow_values))) + end_total(Tail(arrow_values))

C21_SectionsFollowAuth ==
    sections # NoSections =>
        /\ {"Home", "Public"} \subseteq DOMAIN sections
        /\ DOMAIN sections \subseteq {"Home", "Public", "Archer", "Recorder"}
        /\ "Archer" \in DOMAIN sections <=> (auth.logged_in /\ ~auth.is_recorder)
        /\ "Recorder" \in DOMAIN sections <=> (auth.logged_in /\ auth.is_recorder)
        /\ ~({"Archer", "Recorder"} \subseteq DOMAIN sections)
        /\ ~auth.logged_in => DOMAIN sections = {"Home", "Public"}

C21_Witness ==
    /\ ~auth.logged_in
    /\ auth.is_recorder
    /\ DOMAIN sections = {"Home", "Public"}

\* the ends of a round in shooting order, as (range_idx, end_no)
RECURSIVE ends_in_order(_, _)
ends_in_order(rngs, range_idx) ==
    IF range_idx >= Len(rngs) THEN <<>>
    ELSE [e \in 1..rngs[range_idx + 1] |-> <<range_idx, e>>] \o ends_in_order(rngs, range_idx + 1)

\* the positions shown while the button next to Previous is pressed
\* `presses` times, starting at `position`
RECURSIVE walk(_, _, _)
walk(rngs, position, presses) ==
    IF presses = 0 THEN <<position>>
    ELSE <<position>> \o
         walk(rngs,
              nav_position(rngs, position[1], position[2],
                           next_button(rngs, position[1], position[2])),
              presses - 1)

\* C22: Next below the last end of a range goes to (r, e+1); at the last end
\* of a range that is not the last it goes to (r+1, 1); at the last end of
\* the last range the position stays and Submit is offered instead; pressed
\* again and again from the start it shows every end of the round in order
\* (the 12 ends of a 2 x 6 round) and then offers Submit.
C22_NextAdvances ==
    [][entry.session_id # 0 =>
          LET r == entry.range_idx
              e == entry.end_no
              last_end == e >= ranges[r + 1]
              last_range == r >= Len(ranges) - 1
              order == ends_in_order(ranges, 0)
          IN /\ ButtonShown("next") <=> ~last_end
             /\ ButtonShown("next_range") <=> (last_end /\ ~last_range)
             /\ ButtonShown("submit") <=> (last_end /\ last_range)
             /\ NavCallback("next") => (entry'.range_idx = r /\ entry'.end_no = e + 1)
             /\ NavCallback("next_range") => (entry'.range_idx = r + 1 /\ entry'.end_no = 1)
             /\ (last_end /\ last_range) => ~(NavCallback("next") \/ NavCallback("next_range"))
             /\ walk(ranges, <<0, 1>>, Len(order) - 1) = order
             /\ next_button(ranges, order[Len(order)][1], order[Len(order)][2]) = "submit"]_vars

C22_Witness ==
    /\ ranges = <<6, 6>>
    /\ entry.session_id = 1
    /\ entry.range_idx = 1
    /\ entry.end_no = 6
    /\ status[1] = "Preliminary"
    /\ ButtonShown("submit")
    /\ arrows[1][<<2, 6>>] = NoEnd
    /\ \A k \in EndKeys \ {<<2, 6>>} : arrows[1][k] = AllM

\* C23: after any navigation in the editor the position satisfies
\* 0 <= range_idx < number of ranges and 1 <= end_no <= ends_per_range of
\* that range; Previous at end 1 leaves the position unchanged.
C23_PositionInBounds ==
    entry.session_id # 0 =>
        /\ 0 <= entry.range_idx
        /\ entry.range_idx < Len(ranges)
        /\ 1 <= entry.end_no
        /\ entry.end_no <= ranges[entry.range_idx + 1]
        /\ nav_position(ranges, entry.range_idx, 1, "prev") = <<entry.range_idx, 1>>

C23_Witness ==
    /\ ranges = <<2, 1>>
    /\ entry.session_id = 1
    /\ entry.range_idx = 1
    /\ entry.end_no = 1
    /\ arrows[1][<<1, 2>>] = AllM
    /\ arrows[1][<<2, 1>>] = AllM

\* an end with its end row and six arrow rows
fully_recorded(arr, session_id, key) == Len(arr[session_id][key]) = 6

\* the first end in shooting order that is not fully recorded, the final
\* end of the final range when there is none
first_incomplete(arr, session_id, rngs) ==
    LET order == ends_in_order(rngs, 0)
        open == {i \in 1..Len(order) :
                   ~fully_recorded(arr, session_id, <<order[i][1] + 1, order[i][2]>>)}
    IN IF open = {} THEN order[Len(order)]
       ELSE order[CHOOSE i \in open : \A j \in open : i <= j]

\* C24: resuming a draft opens the editor at the first end that is not
\* fully recorded, at the final end of the final range when every end is.
C24_ResumeAtFirstIncomplete ==
    [][\A s \in session_ids :
          (entry.session_id = 0 /\ entry'.session_id = s /\ ResumeDraft(s))
          => <<entry'.range_idx, entry'.end_no>> = first_incomplete(arrows, s, ranges)]_vars

\* C25: when the editor of a Preliminary session moves off an end by
\* Previous, Next, Next Range, Submit or one of the selectboxes, the arrows
\* stored for the end just left are the six values that were shown for it.
C25_NoEditLostOnNavigation ==
    [][(/\ entry.session_id # 0
        /\ entry'.session_id = entry.session_id
        /\ status[entry.session_id] = "Preliminary"
        /\ \/ entry'.range_idx # entry.range_idx
           \/ entry'.end_no # entry.end_no
           \/ status'[entry.session_id] = "Final")
       => fetch_arrow_values(arrows', entry.session_id, entry.range_idx + 1, entry.end_no)
              = entry.arrow_values]_vars

C25_Witness ==
    /\ ranges = <<2, 1>>
    /\ entry.session_id = 1
    /\ status[1] = "Preliminary"
    /\ entry.range_idx = 1
    /\ arrows[1][<<1, 1>>] = <<"X", "9", "9", "8", "M", "7">>
    /\ arrows[1][<<1, 2>>] = NoEnd
    /\ arrows[1][<<2, 1>>] = NoEnd

\* C29: in every audit record old_status is the status the session had in
\* the store immediately before that update and new_status the status it had
\* immediately after, also when the list the recorder acts from was loaded
\* before someone else changed the session.
C29_AuditRecordsActualStatus ==
    [][\A r \in Recorders :
          (runs[r].pc = "updated" /\ Len(audit') = Len(audit) + 1 /\ RunAudit(r))
          => /\ audit'[Len(audit')].old_status = runs[r].was
             /\ audit'[Len(audit')].new_status = runs[r].new_status]_vars

\* the confirmed sessions of an archer for a round among the score rows
counted(member_id, round_id) ==
    {s \in score_rows(ladder.sessions, ladder.rules) :
        /\ ladder.sessions[s].status = "Confirmed"
        /\ ladder.sessions[s].member_id = member_id
        /\ ladder.sessions[s].round_id = round_id}

RECURSIVE sum_totals(_)
sum_totals(ss) ==
    IF ss = {} THEN 0
    ELSE LET s == CHOOSE x \in ss : TRUE
         IN ladder.sessions[s].total_score + sum_totals(ss \ {s})

\* the greatest sum of n of the archer's session totals for the round, n
\* being the score count method or the number of sessions if there are fewer
top_n_total(member_id, rule) ==
    LET mine == counted(member_id, rule.round_id)
        n == IF rule.score_count_method < Cardinality(mine)
             THEN rule.score_count_method ELSE Cardinality(mine)
        picks == {ss \in SUBSET mine : Cardinality(ss) = n}
    IN sum_totals(CHOOSE ss \in picks : \A other \in picks : sum_totals(other) <= sum_totals(ss))

RECURSIVE required_total(_, _)
required_total(member_id, i) ==
    IF i = 0 THEN 0
    ELSE required_total(member_id, i - 1) + top_n_total(member_id, ladder.rules[i])

has_every_round(member_id) ==
    \A i \in DOMAIN ladder.rules : counted(member_id, ladder.rules[i].round_id) # {}

\* C27: in the championship ladder every archer with a counted session has
\* one row; the row's total is the sum over the required rounds of the
\* archer's top N confirmed session totals for the round; the archers with a
\* score in every required round are ranked 1, 2, 3, ... by descending
\* total; an archer missing a required round is below every complete archer
\* whatever the total and has no numeric rank
C27_LadderRanking ==
    ladder.shown =>
        /\ \A member_id \in LadderMembers :
              Cardinality({i \in DOMAIN ladder.rows : ladder.rows[i].Archer = member_id})
                  = IF \E i \in DOMAIN ladder.rules :
                           counted(member_id, ladder.rules[i].round_id) # {}
                    THEN 1 ELSE 0
        /\ \A i \in DOMAIN ladder.rows :
              /\ ladder.rows[i].Total_Score
                    = required_total(ladder.rows[i].Archer, Len(ladder.rules))
              /\ has_every_round(ladder.rows[i].Archer) => ladder.rows[i].Rank = i
              /\ ~has_every_round(ladder.rows[i].Archer) =>
                    /\ ladder.rows[i].Rank = NULL
                    /\ \A j \in DOMAIN ladder.rows :
                          has_every_round(ladder.rows[j].Archer) => j < i
        /\ \A i, j \in DOMAIN ladder.rows :
              (i < j /\ has_every_round(ladder.rows[j].Archer))
                  => ladder.rows[i].Total_Score >= ladder.rows[j].Total_Score

\* a complete archer ranked 1 above an archer who misses a round and has a
\* greater total, made of the best one of two sessions of a round
C27_Witness ==
    /\ ladder.shown
    /\ \E i, j \in DOMAIN ladder.rows :
          /\ i < j
          /\ ladder.rows[i].Rank = 1
          /\ has_every_round(ladder.rows[i].Archer)
          /\ ~has_every_round(ladder.rows[j].Archer)
          /\ ladder.rows[j].Total_Score > ladder.rows[i].Total_Score
          /\ \E k \in DOMAIN ladder.rules :
                Cardinality(counted(ladder.rows[j].Archer, ladder.rules[k].round_id))
                    > ladder.rules[k].score_count_method

\* C26: a session on a round without ranges gets no editor position in any
\* tab that opens it, no run saves an end for it, no end row carries its id,
\* and its status stays Preliminary
C26_ZeroRangeRoundRejected ==
    \A s \in archery_db.session :
        load_round_ranges(s.round_id) = <<>> =>
            /\ s.status = "Preliminary"
            /\ session_ends(archery_db, s.id) = {}
            /\ session_arrows(archery_db, s.id) = {}
            /\ \A t \in Tabs :
                  tabs[t].session_id = s.id =>
                      /\ tabs[t].editor = NoEditor
                      /\ tabs[t].pc \in {"warning", "exception"}

\* a tab shows the warning for a session of the round without ranges while
\* an end of another session is stored
C26_Witness ==
    /\ archery_db.end # {}
    /\ \E t \in Tabs, s \in archery_db.session :
          /\ load_round_ranges(s.round_id) = <<>>
          /\ tabs[t].session_id = s.id
          /\ tabs[t].pc = "warning"

\* C28: the id _create_session returns is the id of the row its INSERT made,
\* so the competition entry is written for that row
C28_CreateReturnsInsertedId ==
    \A t \in Tabs :
        tabs[t].pc \in {"selected", "categorised"}
            => tabs[t].new_session_id = tabs[t].inserted

\* C30: when no run is in progress every arrow belongs to a stored end and
\* every end and every competition entry belongs to a stored session
C30_NoOrphanRows ==
    (\A t \in Tabs : tabs[t].pc \in Pages) =>
        /\ \A a \in archery_db.arrow : \E e \in archery_db.end : e.id = a.end_id
        /\ \A e \in archery_db.end : session_exists(archery_db, e.session_id)
        /\ \A ce \in archery_db.competition_entry : session_exists(archery_db, ce.session_id)

====
